---- MODULE Spec2Model ----
(***************************************************************************)
(* Casting-order notification service (src/main.py): the order-created,   *)
(* status-update and special-order endpoints, the chat calls they make,   *)
(* the sync relay and the ledger they append to.                          *)
(*                                                                         *)
(* The source's Japanese string literals are written here in ASCII         *)
(* (romanised or translated); each place says which literal it stands for. *)
(* A text is a sequence of lines: "\n".join(lines) is the sequence itself, *)
(* and a literal that starts with "\n" contributes an empty line first.    *)
(***************************************************************************)
EXTENDS Integers, Sequences, FiniteSets, TLC

VARIABLES
    SLACK_BOT_TOKEN,          \* main.py:37
    SLACK_DEFAULT_CHANNEL,    \* main.py:38
    SLACK_CHANNEL_TEST,       \* main.py:39
    SLACK_CHANNEL_TYPE_A,     \* main.py:40
    SLACK_CHANNEL_TYPE_B,     \* main.py:41
    SLACK_MENTION_GROUP_ID,   \* main.py:42
    GAS_URL_NOTION_SYNC,      \* main.py:45
    oc,                       \* the running notify_order_created request (its locals)
    slack_calls,              \* the chat-platform calls the running request has made
    su,                       \* the running notify_status_update request
    gas_calls,                \* the POSTs the sync relay has made for it
    ledger,                   \* the rows of the ledger tab (the casting list sheet)
    sp,                       \* the notify_special_order requests, by request
    contacts,                 \* the rows of the shooting-contact tab
    sc,                       \* the running shooting-contact request (add or update)
    co,                       \* a build_order_text call on its own: input and text
    sc2                       \* an update request served at the same time as sc

env == << SLACK_BOT_TOKEN, SLACK_DEFAULT_CHANNEL, SLACK_CHANNEL_TEST,
          SLACK_CHANNEL_TYPE_A, SLACK_CHANNEL_TYPE_B, SLACK_MENTION_GROUP_ID,
          GAS_URL_NOTION_SYNC >>

vars == << SLACK_BOT_TOKEN, SLACK_DEFAULT_CHANNEL, SLACK_CHANNEL_TEST,
           SLACK_CHANNEL_TYPE_A, SLACK_CHANNEL_TYPE_B, SLACK_MENTION_GROUP_ID,
           GAS_URL_NOTION_SYNC, oc, slack_calls, su, gas_calls, ledger, sp,
           contacts, sc, co, sc2 >>

\* What the order-created endpoint leaves alone, and the status-update endpoint.
beyond_order == << su, gas_calls, ledger, sp, contacts, sc, co, sc2 >>

beyond_status == << oc, ledger, sp, contacts, sc, co, sc2 >>

\* What the special-order endpoint leaves alone.
beyond_special == << oc, slack_calls, su, gas_calls, contacts, sc, co, sc2 >>

\* What the shooting-contact endpoints leave alone, and a composition.
beyond_contact == << oc, slack_calls, su, gas_calls, ledger, sp, co, sc2 >>

\* What the second update request leaves alone.
beyond_second == << oc, slack_calls, su, gas_calls, ledger, sp, co, sc >>

beyond_compose == << oc, slack_calls, su, gas_calls, ledger, sp, contacts, sc, sc2 >>

-----------------------------------------------------------------------------
(* Python values *)

\* Python's None: what os.getenv gives for an unset variable, and the default
\* of an Optional field.
None == "<None>"

\* Truthiness of an Optional[str]: None and "" are falsy.
Truthy(x) == x # None /\ x # ""

\* Python's (a or b): a when a is truthy, else b (whatever b is).
Or(a, b) == IF Truthy(a) THEN a ELSE b

\* The last element of a non-empty sequence.
Last(s) == s[Len(s)]

\* str.rstrip() of a joined text: trailing empty lines go.
RECURSIVE RStrip(_)
RStrip(lines) ==
    IF lines = << >> THEN << >>
    ELSE IF Last(lines) = "" THEN RStrip(SubSeq(lines, 1, Len(lines) - 1))
    ELSE lines

-----------------------------------------------------------------------------
(* ChannelRouter *)

pick_channel_test_first(order_type) ==
    IF order_type = "pattern_a"
    THEN Or(Or(SLACK_CHANNEL_TYPE_A, SLACK_CHANNEL_TEST), Or(SLACK_DEFAULT_CHANNEL, ""))
    ELSE IF order_type = "pattern_b"
    THEN Or(Or(SLACK_CHANNEL_TYPE_B, SLACK_CHANNEL_TEST), Or(SLACK_DEFAULT_CHANNEL, ""))
    ELSE Or(Or(SLACK_CHANNEL_TEST, SLACK_DEFAULT_CHANNEL), "")

pick_channel(order_type) ==
    IF order_type = "pattern_a" THEN Or(SLACK_CHANNEL_TYPE_A, SLACK_DEFAULT_CHANNEL)
    ELSE IF order_type = "pattern_b" THEN Or(SLACK_CHANNEL_TYPE_B, SLACK_DEFAULT_CHANNEL)
    ELSE Or(Or(SLACK_CHANNEL_TEST, SLACK_DEFAULT_CHANNEL), "")

-----------------------------------------------------------------------------
(* MessageComposer *)

\* The keys of a dict in insertion order: each key once, at its first place.
RECURSIVE FirstSeen(_)
FirstSeen(keys) ==
    IF keys = << >> THEN << >>
    ELSE LET front == FirstSeen(SubSeq(keys, 1, Len(keys) - 1))
             k == Last(keys)
         IN IF \E i \in 1..Len(front) : front[i] = k THEN front ELSE Append(front, k)

\* sep.join(strs)
RECURSIVE JoinStr(_, _)
JoinStr(strs, sep) ==
    IF strs = << >> THEN ""
    ELSE IF Len(strs) = 1 THEN strs[1]
    ELSE strs[1] \o sep \o JoinStr(Tail(strs), sep)

\* The concatenation of a sequence of sequences.
RECURSIVE Flatten(_)
Flatten(ss) == IF ss = << >> THEN << >> ELSE Head(ss) \o Flatten(Tail(ss))

\* project_ordered: the project names of the orders, first seen first.
project_ordered(orders) ==
    FirstSeen([i \in 1..Len(orders) |-> orders[i].projectName])

\* The keys of projects[p_name], first seen first.
role_ordered(orders, p_name) ==
    LET InProject(o) == o.projectName = p_name
        mine == SelectSeq(orders, InProject)
    IN FirstSeen([i \in 1..Len(mine) |-> mine[i].roleName])

\* projects[p_name][r_name]: the orders of that project and role, in input order.
cands_of(orders, p_name, r_name) ==
    LET Mine(o) == o.projectName = p_name /\ o.roleName = r_name
    IN SelectSeq(orders, Mine)

\* c placed after every element of the sorted list whose rank is <= c.rank.
InsertByRank(sorted, c) ==
    LET n == Cardinality({i \in 1..Len(sorted) : sorted[i].rank <= c.rank})
    IN SubSeq(sorted, 1, n) \o << c >> \o SubSeq(sorted, n + 1, Len(sorted))

sort_by_rank_skipped(cands) == cands

\* cands.sort(key=lambda x: x.rank): a stable sort, ascending.
RECURSIVE sort_by_rank(_)
sort_by_rank(cands) ==
    IF cands = << >> THEN << >>
    ELSE InsertByRank(sort_by_rank(SubSeq(cands, 1, Len(cands) - 1)), Last(cands))

\* The leading broadcast-mention line, when a mention group is configured.
mention_lines ==
    IF Truthy(SLACK_MENTION_GROUP_ID)
    THEN << "<!subteam^" \o SLACK_MENTION_GROUP_ID \o ">" >>
    ELSE << >>

\* The conflict warnings of the candidates of one role, in list order
\* (the literal is "  (siren) {conflictInfo}").
additional_conflict_lines(cands) ==
    Flatten([i \in 1..Len(cands) |->
        IF Truthy(cands[i].conflictInfo)
        THEN << "  [!] " \o cands[i].conflictInfo >> ELSE << >>])

\* One role of the additional-order message: "{r_name}:{names joined by ' / '}"
\* and the conflict warnings. The candidates are NOT sorted here.
additional_role_lines(orders, p_name, r_name) ==
    LET cands == cands_of(orders, p_name, r_name)
        cast_names == JoinStr([i \in 1..Len(cands) |-> cands[i].castName], " / ")
    IN << r_name \o ":" \o cast_names >> \o additional_conflict_lines(cands)

\* One project of the additional-order message: header, roles, an empty line.
additional_project_lines(orders, p_name) ==
    LET roles == role_ordered(orders, p_name)
    IN << "[[" \o p_name \o "]]" >>
       \o Flatten([j \in 1..Len(roles) |-> additional_role_lines(orders, p_name, roles[j])])
       \o << "" >>

\* build_order_text, the branch of payload.isAdditionalOrder.
\* "tsuika order no oshirase" = the additional-order notice headline;
\* "PDF soushin error" = the PDF-send-error label.
build_additional_text(payload, upload_error) ==
    LET projs == project_ordered(payload.orders)
    IN RStrip(
        mention_lines
        \o << "tsuika order no oshirase", "" >>
        \o Flatten([i \in 1..Len(projs) |-> additional_project_lines(payload.orders, projs[i])])
        \o (IF Truthy(upload_error)
            THEN << "", "(!) PDF soushin error: " \o upload_error >> ELSE << >>))

candidate_lines_warn_unless_none(cand) ==
    LET cast_disp == IF Truthy(cand.slack_user_id)
                     THEN "<@" \o cand.slack_user_id \o ">" ELSE cand.castName
    IN << "    dai" \o ToString(cand.rank) \o "kouho:" \o cast_disp >>
       \o (IF cand.conflictInfo # None
           THEN << "    [!] " \o cand.conflictInfo >> ELSE << >>)

\* One candidate of the standard message: "    dai{rank}kouho:{display}" and,
\* when the candidate carries conflictInfo, the warning line right after it.
candidate_lines(cand) ==
    LET cast_disp == IF Truthy(cand.slack_user_id)
                     THEN "<@" \o cand.slack_user_id \o ">" ELSE cand.castName
    IN << "    dai" \o ToString(cand.rank) \o "kouho:" \o cast_disp >>
       \o (IF Truthy(cand.conflictInfo)
           THEN << "    [!] " \o cand.conflictInfo >> ELSE << >>)

\* One role of the standard message: the role line, then its candidates by rank.
role_lines(orders, p_name, r_name) ==
    LET cands == sort_by_rank(cands_of(orders, p_name, r_name))
    IN << "  " \o r_name >> \o Flatten([i \in 1..Len(cands) |-> candidate_lines(cands[i])])

\* One project of the role table.
project_lines(orders, p_name) ==
    LET roles == role_ordered(orders, p_name)
    IN << "[[" \o p_name \o "]]" >>
       \o Flatten([j \in 1..Len(roles) |-> role_lines(orders, p_name, roles[j])])

\* An OrderCreatedPayload's projectId is kept as its hyphen-separated parts:
\* the string is the parts joined by "-", and .replace('-', '') joins them by "".
project_id_str(parts) == JoinStr(parts, "-")

strip_hyphens(parts) == JoinStr(parts, "")

\* build_order_text(payload, upload_error). Labels (the source writes them
\* between backquotes, here between bars): satsueibi = shoot dates, account,
\* sakuhinmei = project names, yakumei = roles, Notion link;
\* "minyuuryoku" = not entered, "mitei" = undecided, "misettei" = unset.
build_order_text(payload, upload_error) ==
    IF payload.isAdditionalOrder
    THEN build_additional_text(payload, upload_error)
    ELSE
      LET projs == project_ordered(payload.orders)
      IN RStrip(
        mention_lines
        \o (IF Truthy(payload.ccString) THEN << "cc: " \o payload.ccString >> ELSE << >>)
        \o << "casting order ga arimashita." >>
        \o (IF Truthy(upload_error)
            THEN << "", "(!) **PDF soushin ni shippai shita node, Slack nite shudou de no tenpu wo onegai shimasu**",
                    "Reason: " \o upload_error >>
            ELSE << >>)
        \o << "", "|satsueibi|" >>
        \o [i \in 1..Len(payload.dateRanges) |-> "- " \o payload.dateRanges[i]]
        \o << "" >>
        \o << "|account|", Or(payload.accountName, "minyuuryoku"), "" >>
        \o << "|sakuhinmei|", IF projs # << >> THEN JoinStr(projs, "/") ELSE "mitei", "" >>
        \o << "|yakumei|" >>
        \o Flatten([i \in 1..Len(projs) |-> project_lines(payload.orders, projs[i])])
        \o << "", "|Notion link|" >>
        \o << IF project_id_str(payload.projectId) # ""
              THEN "https://www.notion.so/" \o strip_hyphens(payload.projectId)
              ELSE "misettei" >>
        \o << "", "--------------------------------------------------" >>)

-----------------------------------------------------------------------------
(* NotificationDispatcher: POST /api/notify/order_created *)

MaxFiles == 1

OrderTypes == {"pattern_a", "pattern_b", "test"}

Cand(id, role, name, rank, project, slack_id, conflict) ==
    [castingId |-> id, roleName |-> role, castName |-> name, rank |-> rank,
     note |-> "", projectName |-> project, slack_user_id |-> slack_id,
     conflictInfo |-> conflict]

\* The candidate lists of the requests of Spec.
OrderLists ==
    { << >>,
      << Cand("k2", "hero", "Bob", 2, "P1", None, "overlaps with A"),
         Cand("k1", "hero", "Ann", 1, "P1", "U1", None) >> }

\* The OrderCreatedPayload values of the requests of Spec.
OrderPayloads ==
    [accountName : {"acct"}, projectName : {"P1"}, projectId : {<< "ab12", "cd34" >>},
     dateRanges : {<< "2026/11/05" >>}, orders : OrderLists, orderType : OrderTypes,
     ccString : {None}, slackThreadTs : {None, "1700.000100"},
     isAdditionalOrder : BOOLEAN]

\* str(e) of the exceptions files_upload_v2 raises.
UploadErrors == {"invalid_auth", "timeout"}

\* response.data of files_upload_v2: "files", each with the public shares
\* (channel -> list of shares, each with a "ts").
UploadResponses(channel) ==
    { [files |-> << >>],
      [files |-> << [public |-> << >>] >>],
      [files |-> << [public |-> [c \in {channel} |-> << >>]] >>],
      [files |-> << [public |-> [c \in {channel} |-> << [ts |-> "1731.000200"] >>]] >>],
      [files |-> << [public |-> [c \in {"C_ELSEWHERE"} |-> << [ts |-> "1731.000300"] >>]] >> ] }

\* The ts read from the upload response: [ts, error]. An empty share list for the
\* channel makes shares[channel][0] raise inside the try block.
extract_ts(data, channel) ==
    IF data.files = << >> THEN [ts |-> None, error |-> None]
    ELSE LET shares == data.files[1].public
         IN IF channel \in DOMAIN shares
            THEN IF shares[channel] = << >>
                 THEN [ts |-> None, error |-> "list index out of range"]
                 ELSE [ts |-> shares[channel][1].ts, error |-> None]
            ELSE [ts |-> None, error |-> None]

NoResponse ==
    [status |-> 0, ok |-> FALSE, ts |-> None, permalink |-> "", upload_error |-> None,
     detail |-> ""]

HttpError(code, text) == [NoResponse EXCEPT !.status = code, !.detail = text]

OrderIdle ==
    [pc |-> "idle", payload |-> CHOOSE p \in OrderPayloads : TRUE, files |-> 0,
     channel |-> None, ts |-> None, permalink |-> "", upload_error |-> None,
     sent_via_upload |-> FALSE, response |-> NoResponse]

\* One call of the chat platform: what was asked, whether it returned (ok) or
\* raised (error), and what it returned (a ts, a permalink). For
\* chat_getPermalink, thread_ts holds the message_ts argument.
Call(api, channel, text, thread_ts, ok, error, result) ==
    [api |-> api, channel |-> channel, text |-> text, thread_ts |-> thread_ts,
     ok |-> ok, error |-> error, result |-> result]

\* return {"ok": True, "ts": ts, "permalink": permalink, "upload_error": upload_error}
respond(o) ==
    [o EXCEPT !.pc = "done",
              !.response = [status |-> 200, ok |-> TRUE, ts |-> o.ts,
                            permalink |-> o.permalink,
                            upload_error |-> o.upload_error, detail |-> ""]]

\* if ts: ... else the return
after_send(o) == IF Truthy(o.ts) THEN [o EXCEPT !.pc = "permalink"] ELSE respond(o)

after_upload_always_posts(o) == [o EXCEPT !.pc = "post"]

\* if not sent_via_upload: the text post; else on to the permalink.
after_upload(o) == IF ~o.sent_via_upload THEN [o EXCEPT !.pc = "post"] ELSE after_send(o)

post_failed_swallowed(o) == respond(o)

\* except Exception: raise HTTPException(500, "Slack soushin shippai")
post_failed(o) ==
    [o EXCEPT !.pc = "done", !.response = HttpError(500, "Slack send failed")]

permalink_failed_aborts(o) ==
    [o EXCEPT !.pc = "done", !.response = HttpError(500, "permalink failed")]

\* except: pass
permalink_failed(o) == respond(o)

fallback_text_without_error(payload, upload_error) == build_order_text(payload, None)

\* fallback_text = build_order_text(payload, upload_error)
fallback_text(payload, upload_error) == build_order_text(payload, upload_error)

-----------------------------------------------------------------------------
(* CastDirectory, LedgerStore and POST /api/notify/special_order *)

\* The ledger tab holds this many rows (header included) before any request,
\* when it is not new.
InitialRows == 9

\* A special order has at most this many dates.
MaxDates == 2

\* The special-order requests that may run concurrently.
MaxRequests == 2

Reqs == 1..MaxRequests

\* The 23 cells A-W of a special-order row (main.py:623-647). "SHUTSUEN" is the
\* role literal (appearance), "sonota" the main/sub literal (other).
LedgerRow(casting_id, account_name, title, cid_str, cast_name, date, status, time_range, ts, permalink, timestamp, orderer, cast_type, cast_email) ==
    << casting_id, account_name, title, "SHUTSUEN", cid_str, cast_name, date, date, 1,
       status, time_range, ts, permalink, "sonota", "", "", timestamp, orderer, "",
       cast_type, cast_email, "", "[]" >>

\* A tab of n rows: a header and earlier casting records.
LedgerOf(n) ==
    [k \in 1..n |->
        IF k = 1
        THEN LedgerRow("CastingID", "AccountName", "ProjectName", "CastID", "CastName",
                       "StartDate", "Status", "Note", "SlackThreadTS", "Permalink",
                       "LastUpdated", "UpdatedBy", "InternalType", "Email")
        ELSE LedgerRow("old_" \o ToString(k), "acct", "P0", "c_ext", "Ext", "2026-10-01",
                       "KETTEI", "", None, "", "2026-10-01 09:00:00", "boss@casty.jp",
                       "GAIBU", "")]

\* The rows the tab holds at the start.
InitialLedger == LedgerOf(InitialRows)

\* str.lower() on the e-mail addresses in use.
lower(str) == IF str = "Boss@Casty.jp" THEN "boss@casty.jp" ELSE str

\* The internal roster tab: name, -, -, email, chat id. One row is short.
InternalRosterRows ==
    << << "Name", "", "", "Email", "SlackID" >>,
       << "Ann", "", "", "ann@casty.jp", "U_ANN" >>,
       << "Boss", "", "", "Boss@Casty.jp", "U_BOSS" >>,
       << "Short", "" >> >>

\* The general roster tab: id, name, ..., email at 7, type at 9, chat id at 10
\* (0-based). "NAIBU" is the internal type, "GAIBU" the external one.
CastListRows ==
    << << "ID", "Name", "", "", "", "", "", "Email", "", "Type", "SlackID" >>,
       << "c_int", "Ann", "", "", "", "", "", "ann@casty.jp", "", "NAIBU", "U_ANN" >>,
       << "c_ext", "Ext", "", "", "", "", "", "", "", "GAIBU", "" >>,
       << "c_short", "Sho" >>,
       << "", "NoId", "", "", "", "", "", "x@casty.jp", "", "NAIBU", "U_X" >> >>

\* rows[1:]
SkipHeader(rows) == IF rows = << >> THEN << >> ELSE Tail(rows)

\* dict assignment m[k] = v
Put(m, k, v) == [x \in (DOMAIN m) \cup {k} |-> IF x = k THEN v ELSE m[x]]

\* The loop over the internal roster: email.lower() -> chat id.
RECURSIVE internal_email_map(_)
internal_email_map(rows) ==
    IF rows = << >> THEN << >>
    ELSE LET m == internal_email_map(SubSeq(rows, 1, Len(rows) - 1))
             row == Last(rows)
         IN IF Len(row) < 5 THEN m
            ELSE IF row[4] # "" THEN Put(m, lower(row[4]), row[5]) ELSE m

\* One general-roster row as a cast record; short rows get the defaults.
cast_record(row) ==
    [name |-> row[2],
     email |-> IF Len(row) > 7 THEN row[8] ELSE "",
     slack_id |-> IF Len(row) > 10 THEN row[11] ELSE "",
     type |-> IF Len(row) > 9 THEN row[10] ELSE "GAIBU"]

\* The loop over the general roster: cast_map.
RECURSIVE cast_map_of(_)
cast_map_of(rows) ==
    IF rows = << >> THEN << >>
    ELSE LET m == cast_map_of(SubSeq(rows, 1, Len(rows) - 1))
             row == Last(rows)
         IN IF Len(row) < 2 THEN m
            ELSE IF row[1] # "" THEN Put(m, row[1], cast_record(row)) ELSE m

\* The loop over the general roster: what it adds to email_to_slack_map.
RECURSIVE general_email_map(_, _)
general_email_map(m0, rows) ==
    IF rows = << >> THEN m0
    ELSE LET m == general_email_map(m0, SubSeq(rows, 1, Len(rows) - 1))
             row == Last(rows)
         IN IF Len(row) < 2 \/ row[1] = "" THEN m
            ELSE IF cast_record(row).email # ""
                 THEN Put(m, lower(cast_record(row).email), cast_record(row).slack_id)
                 ELSE m

\* cast = cast_map.get(cid_str, {}) with the three `or` defaults.
\* "FUMEI" is the unknown-name literal.
resolve_cast(cast_map, cid_str) ==
    IF cid_str \in DOMAIN cast_map
    THEN [name |-> Or(cast_map[cid_str].name, "FUMEI"),
          email |-> Or(cast_map[cid_str].email, ""),
          type |-> Or(cast_map[cid_str].type, "GAIBU"),
          slack_id |-> Or(cast_map[cid_str].slack_id, "")]
    ELSE [name |-> "FUMEI", email |-> "", type |-> "GAIBU", slack_id |-> ""]

\* A date is kept as its hyphen-separated parts: the string joins them by "-",
\* and .replace("-", "/") joins them by "/".
date_str(parts) == JoinStr(parts, "-")

AllDates == << << "2026", "11", "05" >>, << "2026", "11", "06" >>, << "2026", "11", "07" >>,
               << "2026", "11", "08" >> >>

DateLists == {SubSeq(AllDates, 1, n) : n \in 1..MaxDates}

CastIdLists ==
    { << >>, << "c_int" >>, << "c_ext", "c_int" >>, << "c_int", "c_nobody" >>,
      << "c_int", "c_int" >> }

\* The SpecialOrderPayload values of the requests of SpecSpecial.
SpecialPayloads ==
    [orderType : {"external", "internal"}, title : {"Event"}, dates : DateLists,
     startTime : {"10:00"}, endTime : {"12:00"}, castIds : CastIdLists,
     ordererEmail : {"Boss@Casty.jp"}]

\* "GAIBU ANKEN" = external job, "SHANAI EVENT" = in-house event.
account_name_of(payload) ==
    IF payload.orderType = "external" THEN "GAIBU ANKEN" ELSE "SHANAI EVENT"

time_range_of(payload) == payload.startTime \o " ~ " \o payload.endTime

status_of_known_cast(cast) == IF cast.name # "FUMEI" THEN "KARI CASTING" ELSE "KETTEI"

\* "KARI CASTING" = provisional casting, "KETTEI" = decided.
status_of(cast) == IF cast.type = "NAIBU" THEN "KARI CASTING" ELSE "KETTEI"

\* msg of one cast (labels title, nichiji = date, jikan = time).
special_msg(payload, cast, email_to_slack_map) ==
    LET mention == IF cast.slack_id # "" THEN "<@" \o cast.slack_id \o ">" ELSE cast.name
        key == lower(payload.ordererEmail)
        cc_mention == IF key \in DOMAIN email_to_slack_map /\ Truthy(email_to_slack_map[key])
                      THEN "<@" \o email_to_slack_map[key] \o ">"
                      ELSE payload.ordererEmail
        dates_str == JoinStr([d \in 1..Len(payload.dates) |->
                                 JoinStr(payload.dates[d], "/")], ", ")
    IN << mention \o " ", "CC: " \o cc_mention, "",
          "[[" \o account_name_of(payload) \o "]]",
          "|title|", payload.title, "|nichiji|", dates_str,
          "|jikan|", time_range_of(payload) >>

\* casting_id = f"sp_{uuid.uuid4()}": a fresh id, here named by the request and
\* the position of the row in it.
uuid4_once_per_request(r, k) == "sp_" \o ToString(r)

uuid4(r, k) == "sp_" \o ToString(r) \o "_" \o ToString(k)

NoRow == << >>

\* The calendar descriptor of one internal-cast occurrence (rowNumber None).
internal_event(casting_id, payload, cast, date) ==
    [castingId |-> casting_id, accountName |-> account_name_of(payload),
     projectName |-> payload.title, roleName |-> "SHUTSUEN", mainSub |-> "sonota",
     start |-> date, end |-> date, email |-> cast.email, status |-> status_of(cast),
     time_range |-> time_range_of(payload), rowNumber |-> NoRow]

SpecialResponse(status, ok, events, detail) ==
    [status |-> status, ok |-> ok, calendar_events |-> events, detail |-> detail]

SpecialIdle ==
    [pc |-> "idle", payload |-> CHOOSE p \in SpecialPayloads : TRUE,
     cast_map |-> << >>, email_to_slack_map |-> << >>, i |-> 1, new_rows |-> << >>,
     internal_events |-> << >>, calls |-> << >>, updated_range |-> << >>,
     first_row |-> 0, id_to_row |-> << >>, rosters |-> [internal |-> FALSE, general |-> FALSE],
     append_error |-> None, response |-> SpecialResponse(0, FALSE, << >>, "")]

-----------------------------------------------------------------------------
(* LedgerStore, the shooting-contact tab: /api/shooting_contact/add, update, list *)

\* The shooting-contact endpoints serve at most this many requests in a run.
MaxContactRequests == 2

\* The tab's header row, columns A-U.
ContactHeader ==
    << "castingId", "accountName", "projectName", "notionId", "roleName", "castName",
       "castType", "shootDate", "note", "status", "inTime", "outTime", "location",
       "address", "makingUrl", "cost", "postDate", "updatedBy", "updatedAt", "mainSub",
       "poUuid" >>

\* payload.get(key, default) and payload[key] of the add endpoint's dict.
Get(payload, key, default) == IF key \in DOMAIN payload THEN payload[key] ELSE default

\* required = [...]
required ==
    << "castingId", "account", "projectName", "notionId", "roleName", "castName",
       "castType", "shootDate" >>

\* The first required field the payload lacks (None when it has them all).
first_missing(payload) ==
    LET missing == {k \in 1..Len(required) : required[k] \notin DOMAIN payload}
    IN IF missing = {} THEN None
       ELSE required[CHOOSE k \in missing : \A k2 \in missing : k <= k2]

\* What a cell holds after a write with value_input_option="USER_ENTERED": the
\* platform parses the text as typed, so a numeral loses its leading zeros.
user_entered(value) == IF value = "007" THEN "7" ELSE value

contact_row_before_cost(payload) ==
    << payload["castingId"], payload["account"], payload["projectName"],
       payload["notionId"], payload["roleName"], payload["castName"],
       payload["castType"], payload["shootDate"], Get(payload, "note", ""),
       "KOUBAN RENRAKU MACHI", Get(payload, "inTime", ""), Get(payload, "outTime", ""),
       Get(payload, "location", ""), Get(payload, "address", ""),
       Get(payload, "makingUrl", ""),
       Get(payload, "postDate", ""), Get(payload, "updatedBy", ""),
       Get(payload, "updatedAt", ""), Get(payload, "mainSub", "sonota") >>

\* row = [...] of add_shooting_contact: 20 cells, A-T. "KOUBAN RENRAKU MACHI" is
\* the status literal (waiting for the call sheet), "sonota" the main/sub default.
contact_row(payload) ==
    << payload["castingId"], payload["account"], payload["projectName"],
       payload["notionId"], payload["roleName"], payload["castName"],
       payload["castType"], payload["shootDate"], Get(payload, "note", ""),
       "KOUBAN RENRAKU MACHI", Get(payload, "inTime", ""), Get(payload, "outTime", ""),
       Get(payload, "location", ""), Get(payload, "address", ""),
       Get(payload, "makingUrl", ""), Get(payload, "cost", ""),
       Get(payload, "postDate", ""), Get(payload, "updatedBy", ""),
       Get(payload, "updatedAt", ""), Get(payload, "mainSub", "sonota") >>

append_row_below_header(rows, row) ==
    << Head(rows) >> \o << [c \in 1..Len(row) |-> user_entered(row[c])] >> \o Tail(rows)

\* sheet.append_row(row, value_input_option="USER_ENTERED"): the row goes below
\* the last row of the tab.
append_row(rows, row) == Append(rows, [c \in 1..Len(row) |-> user_entered(row[c])])

\* The add payloads: the required fields of a casting id, alone or with some of
\* the optional ones.
AddBase(id) ==
    [castingId |-> id, account |-> "acct", projectName |-> "P1", notionId |-> "n1",
     roleName |-> "hero", castName |-> "Ann", castType |-> "GAIBU",
     shootDate |-> "2026-11-20"]

AddOptional == [note |-> "bring ID", inTime |-> "09:00", mainSub |-> "main"]

AddIds == {"k2", "k3", "007"}

AddPayloads ==
    {AddBase(id) : id \in AddIds}
    \cup {AddBase(id) @@ AddOptional : id \in {"k3"}}
    \cup {[k \in (DOMAIN AddBase("k3")) \ {"shootDate"} |-> "x"]}

\* The tab before any request: the header and two rows that add wrote.
InitialContacts ==
    append_row(append_row(<< ContactHeader >>, contact_row(AddBase("k1"))),
               contact_row(AddBase("k2") @@ AddOptional))

\* The columns of the tab, by letter.
ColumnLetters ==
    << "A", "B", "C", "D", "E", "F", "G", "H", "I", "J", "K", "L", "M", "N", "O", "P",
       "Q", "R", "S", "T", "U" >>

\* The 1-based column a letter names in a range such as "J3".
ColumnIndex(letter) == CHOOSE c \in 1..Len(ColumnLetters) : ColumnLetters[c] = letter

\* The value of a cell of the grid: a row ends where its last value is, and
\* the cells beyond are empty.
Cell(rows, r, c) == IF r <= Len(rows) /\ c <= Len(rows[r]) THEN rows[r][c] ELSE ""

\* One range of a batch written to the grid.
write_cell(rows, range, value) ==
    LET c == ColumnIndex(range.col)
        wide == Len(rows[range.row])
    IN [rows EXCEPT ![range.row] =
          [k \in 1..(IF c > wide THEN c ELSE wide) |->
              IF k = c THEN value ELSE Cell(rows, range.row, k)]]

\* sheet.batch_update(updates): every range of the batch, in order.
RECURSIVE batch_update(_, _)
batch_update(rows, updates) ==
    IF updates = << >> THEN rows
    ELSE batch_update(write_cell(rows, Head(updates).range, Head(updates).value),
                      Tail(updates))

\* One entry of updates: {"range": f"{col}{row_idx}", "values": [[value]]}
Update(col, row_idx, value) == [range |-> [col |-> col, row |-> row_idx], value |-> value]

\* The optional fields of ShootingContactUpdateItem, each with the value the
\* requests here give it when present (location is present but empty).
UpdateValues ==
    [status |-> "OK", inTime |-> "10:30", outTime |-> "18:00", location |-> "",
     address |-> "1-2-3 Shibuya", cost |-> "50000", makingUrl |-> "https://m.example/1",
     postDate |-> "2026-11-30", mainSub |-> "sub", poUuid |-> "po-1"]

UpdateIds == {"k2", "k3", "7"}

\* The ShootingContactUpdateItem values: no optional field, one, or all of them.
UpdatePayloads ==
    {[f \in (DOMAIN UpdateValues) \cup {"castingId"} |->
         IF f = "castingId" THEN id
         ELSE IF f \in present THEN UpdateValues[f] ELSE None] :
       id \in UpdateIds,
       present \in {{}} \cup {{f} : f \in DOMAIN UpdateValues} \cup {DOMAIN UpdateValues}}

\* sheet.col_values(1): the values of column A, top to bottom.
col_values(rows, c) == [r \in 1..Len(rows) |-> Cell(rows, r, c)]

index_of_last(col_a, x) ==
    LET found == {i \in 1..Len(col_a) : col_a[i] = x}
    IN IF found = {} THEN 0 ELSE CHOOSE i \in found : \A i2 \in found : i >= i2

\* col_a.index(x) + 1: the 1-based place of the first element equal to x,
\* 0 here when index raises ValueError.
index_of(col_a, x) ==
    LET found == {i \in 1..Len(col_a) : col_a[i] = x}
    IN IF found = {} THEN 0 ELSE CHOOSE i \in found : \A i2 \in found : i <= i2

\* The range of one optional field, when the payload has it.
field_update(payload, field, col, row_idx) ==
    IF payload[field] # None THEN << Update(col, row_idx, payload[field]) >> ELSE << >>

updates_clear_absent(payload, row_idx, now_str) ==
    LET put(field, col) == << Update(col, row_idx,
                                      IF payload[field] # None THEN payload[field] ELSE "") >>
    IN put("status", "J") \o put("inTime", "K") \o put("outTime", "L")
       \o put("location", "M") \o put("address", "N") \o put("makingUrl", "O")
       \o put("cost", "P") \o put("postDate", "Q") \o put("mainSub", "T")
       \o put("poUuid", "U") \o << Update("S", row_idx, now_str) >>

updates_stamping_note(payload, row_idx, now_str) ==
    field_update(payload, "status", "J", row_idx)
    \o field_update(payload, "inTime", "K", row_idx)
    \o field_update(payload, "outTime", "L", row_idx)
    \o field_update(payload, "location", "M", row_idx)
    \o field_update(payload, "address", "N", row_idx)
    \o field_update(payload, "makingUrl", "O", row_idx)
    \o field_update(payload, "cost", "P", row_idx)
    \o field_update(payload, "postDate", "Q", row_idx)
    \o field_update(payload, "mainSub", "T", row_idx)
    \o field_update(payload, "poUuid", "U", row_idx)
    \o << Update("S", row_idx, now_str), Update("I", row_idx, now_str) >>

\* updates of update_shooting_contact_status: J-Q, T and U for the fields that
\* are not None, then the timestamp in S.
updates_of(payload, row_idx, now_str) ==
    field_update(payload, "status", "J", row_idx)
    \o field_update(payload, "inTime", "K", row_idx)
    \o field_update(payload, "outTime", "L", row_idx)
    \o field_update(payload, "location", "M", row_idx)
    \o field_update(payload, "address", "N", row_idx)
    \o field_update(payload, "makingUrl", "O", row_idx)
    \o field_update(payload, "cost", "P", row_idx)
    \o field_update(payload, "postDate", "Q", row_idx)
    \o field_update(payload, "mainSub", "T", row_idx)
    \o field_update(payload, "poUuid", "U", row_idx)
    \o << Update("S", row_idx, now_str) >>

\* One element of the result of shooting_contact_list: the cells of a row by
\* field name, short rows read as empty.
list_record(r) ==
    LET at(k, default) == IF Len(r) > k THEN r[k + 1] ELSE default
    IN [castingId |-> at(0, ""), accountName |-> at(1, ""), projectName |-> at(2, ""),
        notionId |-> at(3, ""), roleName |-> at(4, ""), castName |-> at(5, ""),
        castType |-> at(6, ""), shootDate |-> at(7, ""), note |-> at(8, ""),
        status |-> at(9, ""), inTime |-> at(10, ""), outTime |-> at(11, ""),
        location |-> at(12, ""), address |-> at(13, ""), makingUrl |-> at(14, ""),
        cost |-> at(15, ""), postDate |-> at(16, ""), updatedBy |-> at(17, ""),
        updatedAt |-> at(18, ""), mainSub |-> at(19, "sonota"), poUuid |-> at(20, "")]

\* datetime.now().strftime(...) at the n-th request of a run.
now_str(n) == "2026-11-05 12:00:0" \o ToString(n)

ContactResponse(status, ok, detail) == [status |-> status, ok |-> ok, detail |-> detail]

\* The shooting-contact request being served: its endpoint (op), its payload,
\* the row found, the sheet calls made, and how many requests came before.
ContactIdle ==
    [pc |-> "idle", op |-> "none", payload |-> << >>, row_idx |-> 0, calls |-> << >>,
     served |-> 0, again |-> FALSE, response |-> ContactResponse(0, FALSE, "")]

\* An update request served while other requests are: its payload, the column
\* it read (col_a), the row it found, the batch it sent.
SecondIdle ==
    [pc |-> "idle", payload |-> << >>, col_a |-> << >>, row_idx |-> 0, calls |-> << >>,
     response |-> ContactResponse(0, FALSE, "")]

\* The payloads of that request: every optional field, for one of two ids.
SecondPayloads == {p \in UpdatePayloads : p.castingId \in {"k2", "k3"} /\ p.poUuid # None
                                          /\ p.status # None}

-----------------------------------------------------------------------------
(* MessageComposer on its own: build_order_text over lists of candidates *)

\* A composed order has at most this many candidates.
MaxOrders == 3

\* The candidate in place i of a list: its name says its place; one without
\* conflict has None there in an odd place and the empty string in an even one.
ComposeCand(i, project, role, rank, conflict) ==
    Cand("k" \o ToString(i), role, "N" \o ToString(i), rank, project,
         IF i = 2 THEN "U2" ELSE None,
         IF conflict THEN "overlaps" ELSE IF i % 2 = 1 THEN None ELSE "")

\* The OrderCreatedPayload of a composition, before its candidates.
ComposeBase ==
    [accountName |-> "acct", projectName |-> "P1", projectId |-> << "ab12", "cd34" >>,
     dateRanges |-> << "2026/11/05" >>, orders |-> << >>, orderType |-> "test",
     ccString |-> None, slackThreadTs |-> None, isAdditionalOrder |-> FALSE]

\* A composition: the payload the caller holds, the text built from it, and,
\* for a caller that composes a second time, the candidates as first given,
\* the upload error passed, and the second text.
ComposeIdle ==
    [pc |-> "idle", payload |-> ComposeBase, text |-> << >>, given |-> << >>,
     upload_error |-> None, again |-> << >>]

\* A payload composed twice has at most this many candidates.
MaxRecomposed == 2

orders_sorted_in_place(payload) == sort_by_rank(payload.orders)

\* payload.orders once build_order_text has returned: the lists it fills and
\* sorts are its own (projects[p][r]), so the payload's list is as it was.
orders_after_compose(payload) == payload.orders

-----------------------------------------------------------------------------
(* SyncRelay and POST /api/notify/status_update *)

\* newStatus values: "OK", "NG", "KETTEI" (the two-character word for
\* "decided"), "TSUIKA ORDER" (the additional-order status), and a free text.
StatusValues == {"OK", "NG", "KETTEI", "TSUIKA ORDER", "jouken tsuki OK"}

\* The StatusUpdatePayload values of the requests of SpecStatus.
StatusPayloads ==
    [castingId : {"k1"}, newStatus : StatusValues, castName : {"", "Ann"},
     slackThreadTs : {None, "1700.000100"}, extraMessage : {None, "memo"},
     isInternal : {FALSE}, projectId : {None, "", "page-1"}, mainSub : {"sonota"},
     orderDetails : {None}]

\* build_status_update_text(payload)
build_status_update_text(payload) ==
    IF payload.newStatus = "TSUIKA ORDER"
    THEN RStrip(<< "tsuika order ga touroku saremashita.", Or(payload.extraMessage, "") >>)
    ELSE LET base == payload.castName \o "san, shutsuen" \o payload.newStatus \o "deshita."
         IN IF Truthy(payload.extraMessage) THEN << base, payload.extraMessage >>
            ELSE << base >>

\* The text notify_status_update posts (its own additional-order branch does
\* not rstrip).
status_text(payload) ==
    IF payload.newStatus = "TSUIKA ORDER"
    THEN << "tsuika order ga touroku saremashita.", Or(payload.extraMessage, "") >>
    ELSE build_status_update_text(payload)

should_sync_any_project(payload) == payload.newStatus \in {"OK", "KETTEI"}

\* if payload.newStatus in ["OK", "KETTEI"]: if payload.projectId and payload.castName:
should_sync(payload) ==
    /\ payload.newStatus \in {"OK", "KETTEI"}
    /\ Truthy(payload.projectId) /\ Truthy(payload.castName)

\* gas_payload of sync_to_notion_via_gas
gas_payload(payload) ==
    [pageId |-> payload.projectId, castName |-> payload.castName,
     isInternal |-> payload.isInternal, orderDetails |-> payload.orderDetails]

StatusIdle ==
    [pc |-> "idle", payload |-> CHOOSE p \in StatusPayloads : TRUE, channel |-> None,
     tasks |-> << >>, scheduled |-> 0, response |-> NoResponse]

\* JSONResponse(content={"ok": True, ...}); detail carries the "message".
StatusOk(message) == [NoResponse EXCEPT !.status = 200, !.ok = TRUE, !.detail = message]

\* The request arrives: the relay is scheduled, then the thread and channel
\* checks. Without a token slack_client is None and the post raises at once.
StatusReceiveFrom(payloads) ==
    /\ su.pc = "idle"
    /\ \E payload \in payloads :
         LET s == [StatusIdle EXCEPT
                     !.payload = payload,
                     !.tasks = IF should_sync(payload) THEN << payload >> ELSE << >>,
                     !.scheduled = IF should_sync(payload) THEN 1 ELSE 0]
             channel == Or(SLACK_CHANNEL_TEST, SLACK_DEFAULT_CHANNEL)
         IN su' =
              IF ~Truthy(payload.slackThreadTs)
              THEN [s EXCEPT !.pc = "done", !.response = StatusOk("DB append only")]
              ELSE IF ~Truthy(channel)
              THEN [s EXCEPT !.pc = "done", !.channel = channel,
                             !.response = HttpError(500, "channel not configured")]
              ELSE IF ~Truthy(SLACK_BOT_TOKEN)
              THEN [s EXCEPT !.pc = "done", !.channel = channel,
                             !.response = HttpError(500, "unexpected error")]
              ELSE [s EXCEPT !.pc = "post", !.channel = channel]
    /\ slack_calls' = << >>
    /\ gas_calls' = << >>
    /\ UNCHANGED << env, beyond_status >>

StatusReceive == StatusReceiveFrom(StatusPayloads)

\* await slack_client.chat_postMessage(...) into the thread.
StatusPost ==
    /\ su.pc = "post"
    /\ \/ /\ slack_calls' = Append(slack_calls,
                Call("chat_postMessage", su.channel, status_text(su.payload),
                     su.payload.slackThreadTs, TRUE, None, "1731.000500"))
          /\ su' = [su EXCEPT !.pc = "done", !.response = StatusOk("")]
       \/ \E e \in {"thread_not_found", "timeout"} :
            /\ slack_calls' = Append(slack_calls,
                  Call("chat_postMessage", su.channel, status_text(su.payload),
                       su.payload.slackThreadTs, FALSE, e, None))
            /\ su' = [su EXCEPT !.pc = "done",
                          !.response = HttpError(500,
                              IF e = "timeout" THEN "unexpected error" ELSE "Slack send failed")]
    /\ UNCHANGED << env, beyond_status, gas_calls >>

\* The outcomes of the relay's POST: status 200, another status, an exception.
PostOutcomes == {"200", "500", "raised"}

relay_failure_surfaces(s, outcome) ==
    IF outcome = "200" THEN [s EXCEPT !.tasks = Tail(@)]
    ELSE [s EXCEPT !.tasks = Tail(@), !.response = HttpError(500, "Notion sync failed")]

\* The task ends whatever the POST did: each branch only prints.
relay_finished(s, outcome) == [s EXCEPT !.tasks = Tail(@)]

\* sync_to_notion_via_gas(payload), run as a background task once the handler
\* has produced its response. (The model lets it run after any response.)
RelayRun ==
    /\ su.pc = "done"
    /\ su.tasks # << >>
    /\ IF ~Truthy(GAS_URL_NOTION_SYNC)
       THEN /\ su' = relay_finished(su, "unset")
            /\ UNCHANGED gas_calls
       ELSE \E outcome \in PostOutcomes :
              /\ gas_calls' = Append(gas_calls,
                    [url |-> GAS_URL_NOTION_SYNC, json |-> gas_payload(Head(su.tasks)),
                     outcome |-> outcome])
              /\ su' = relay_finished(su, outcome)
    /\ UNCHANGED << env, beyond_status, slack_calls >>

\* The request and its background task are over (or the task never ran).
StatusFinish ==
    /\ su.pc = "done"
    /\ su' = StatusIdle
    /\ slack_calls' = << >>
    /\ gas_calls' = << >>
    /\ UNCHANGED << env, beyond_status >>

InitStatus ==
    /\ SLACK_BOT_TOKEN \in {None, "xoxb-1"}
    /\ SLACK_DEFAULT_CHANNEL \in {None, "", "C_DEFAULT"}
    /\ SLACK_CHANNEL_TEST \in {None, "C_TEST"}
    /\ SLACK_CHANNEL_TYPE_A = None
    /\ SLACK_CHANNEL_TYPE_B = None
    /\ SLACK_MENTION_GROUP_ID \in {None, "S0001"}
    /\ GAS_URL_NOTION_SYNC \in {None, "https://script.example/exec"}
    /\ oc = OrderIdle
    /\ slack_calls = << >>
    /\ su = StatusIdle
    /\ gas_calls = << >>
    /\ ledger = InitialLedger
    /\ sp = [r \in Reqs |-> SpecialIdle]
    /\ contacts = InitialContacts
    /\ sc = ContactIdle
    /\ co = ComposeIdle
    /\ sc2 = SecondIdle

NextStatus == StatusReceive \/ StatusPost \/ RelayRun \/ StatusFinish

SpecStatus == InitStatus /\ [][NextStatus]_vars

-----------------------------------------------------------------------------
(* notify_order_created: the steps *)

\* The request arrives: payload parsing, the chat-configuration check, the channel.
OrderReceive ==
    /\ oc.pc = "idle"
    /\ slack_calls' = << >>
    /\ \E valid \in BOOLEAN, payload \in OrderPayloads, n \in 0..MaxFiles :
         IF ~valid
         THEN oc' = [OrderIdle EXCEPT !.pc = "done",
                                      !.response = HttpError(400, "Payload error")]
         ELSE IF ~Truthy(SLACK_BOT_TOKEN)
         THEN oc' = [OrderIdle EXCEPT !.pc = "done", !.payload = payload, !.files = n,
                                      !.response = HttpError(500, "Slack Config Error")]
         ELSE LET o == [OrderIdle EXCEPT !.payload = payload, !.files = n,
                                         !.channel = pick_channel(payload.orderType)]
              IN oc' = IF n > 0 THEN [o EXCEPT !.pc = "upload"] ELSE after_upload(o)
    /\ UNCHANGED << env, beyond_order >>

\* await slack_client.files_upload_v2(...) and what follows it in the try block.
OrderUpload ==
    /\ oc.pc = "upload"
    /\ LET caption == build_order_text(oc.payload, None)
       IN \/ \E e \in UploadErrors :
               /\ slack_calls' = Append(slack_calls,
                     Call("files_upload_v2", oc.channel, caption,
                          oc.payload.slackThreadTs, FALSE, e, None))
               /\ oc' = after_upload([oc EXCEPT !.upload_error = e])
          \/ \E data \in UploadResponses(oc.channel) :
               LET got == extract_ts(data, oc.channel)
               IN /\ slack_calls' = Append(slack_calls,
                        Call("files_upload_v2", oc.channel, caption,
                             oc.payload.slackThreadTs, TRUE, None, got.ts))
                  /\ oc' = after_upload([oc EXCEPT !.sent_via_upload = TRUE,
                                                   !.ts = got.ts,
                                                   !.upload_error = got.error])
    /\ UNCHANGED << env, beyond_order >>

\* await slack_client.chat_postMessage(...): it raises, or returns with or
\* without a "ts".
OrderPost ==
    /\ oc.pc = "post"
    /\ LET text == fallback_text(oc.payload, oc.upload_error)
       IN \/ /\ slack_calls' = Append(slack_calls,
                     Call("chat_postMessage", oc.channel, text,
                          oc.payload.slackThreadTs, FALSE, "channel_not_found", None))
             /\ oc' = post_failed(oc)
          \/ \E ts \in {None, "1731.000400"} :
               /\ slack_calls' = Append(slack_calls,
                     Call("chat_postMessage", oc.channel, text,
                          oc.payload.slackThreadTs, TRUE, None, ts))
               /\ oc' = after_send([oc EXCEPT !.ts = ts])
    /\ UNCHANGED << env, beyond_order >>

\* await slack_client.chat_getPermalink(...): it raises, or returns with or
\* without a "permalink".
OrderPermalink ==
    /\ oc.pc = "permalink"
    /\ \/ /\ slack_calls' = Append(slack_calls,
                Call("chat_getPermalink", oc.channel, << >>, oc.ts, FALSE,
                     "message_not_found", None))
          /\ oc' = permalink_failed(oc)
       \/ \E link \in {"", "https://slack.example/p1731"} :
            /\ slack_calls' = Append(slack_calls,
                  Call("chat_getPermalink", oc.channel, << >>, oc.ts, TRUE, None, link))
            /\ oc' = respond([oc EXCEPT !.permalink = link])
    /\ UNCHANGED << env, beyond_order >>

\* The response has gone out; the server waits for the next request.
OrderFinish ==
    /\ oc.pc = "done"
    /\ oc' = OrderIdle
    /\ slack_calls' = << >>
    /\ UNCHANGED << env, beyond_order >>

Init ==
    /\ SLACK_BOT_TOKEN \in {None, "xoxb-1"}
    /\ SLACK_DEFAULT_CHANNEL \in {None, "", "C_DEFAULT"}
    /\ SLACK_CHANNEL_TEST \in {None, "C_TEST"}
    /\ SLACK_CHANNEL_TYPE_A \in {None, "C_A"}
    /\ SLACK_CHANNEL_TYPE_B \in {None, "C_B"}
    /\ SLACK_MENTION_GROUP_ID \in {None, "S0001"}
    /\ GAS_URL_NOTION_SYNC = None
    /\ oc = OrderIdle
    /\ slack_calls = << >>
    /\ su = StatusIdle
    /\ gas_calls = << >>
    /\ ledger = InitialLedger
    /\ sp = [r \in Reqs |-> SpecialIdle]
    /\ contacts = InitialContacts
    /\ sc = ContactIdle
    /\ co = ComposeIdle
    /\ sc2 = SecondIdle

Next == OrderReceive \/ OrderUpload \/ OrderPost \/ OrderPermalink \/ OrderFinish

Spec == Init /\ [][Next]_vars

-----------------------------------------------------------------------------
(* notify_special_order: the steps *)

DigitChars == << "0", "1", "2", "3", "4", "5", "6", "7", "8", "9" >>

IsDigit(c) == \E d \in 1..10 : DigitChars[d] = c

DigitValue(c) == (CHOOSE d \in 1..10 : DigitChars[d] = c) - 1

\* The decimal digits of a row number, as the ledger platform writes it.
RECURSIVE str_of_int(_)
str_of_int(n) ==
    IF n < 10 THEN << DigitChars[n + 1] >>
    ELSE str_of_int(n \div 10) \o << DigitChars[(n % 10) + 1] >>

\* int(digits)
RECURSIVE int_of(_)
int_of(digits) ==
    IF digits = << >> THEN 0
    ELSE int_of(SubSeq(digits, 1, Len(digits) - 1)) * 10 + DigitValue(Last(digits))

\* The tab name as the platform prefixes it to a range.
SheetRef == << "'", "L", "i", "s", "t", "'", "!" >>

\* The updatedRange of an append of `count` rows written from row `first`, a
\* string kept as its characters: the usual A1 range of columns A-W; the range
\* of a table found one column to the right; a range without the tab prefix;
\* and "" when the response carries no updates.
updated_range_of(kind, first, count) ==
    LET rows(c1, c2) == << c1 >> \o str_of_int(first) \o << ":", c2 >>
                        \o str_of_int(first + count - 1)
    IN IF kind = "normal" THEN SheetRef \o rows("A", "W")
       ELSE IF kind = "shifted" THEN SheetRef \o rows("B", "X")
       ELSE IF kind = "bare" THEN rows("A", "W")
       ELSE << >>

\* The end of the run of digits of str that starts at q (q - 1 when none).
DigitRunEnd(str, q) ==
    CHOOSE e \in (q - 1)..Len(str) :
        /\ \A k \in q..e : IsDigit(str[k])
        /\ e = Len(str) \/ ~IsDigit(str[e + 1])

\* Whether !A(\d+): matches at position p of str.
MatchesAt(str, p) ==
    /\ p + 3 <= Len(str)
    /\ str[p] = "!" /\ str[p + 1] = "A"
    /\ LET e == DigitRunEnd(str, p + 2)
       IN e >= p + 2 /\ e + 1 <= Len(str) /\ str[e + 1] = ":"

\* match = re.search(r'!A(\d+):', updated_range);
\* start_row = int(match.group(1)) if match else 0
parsed_start_row(updated_range) ==
    LET found == {p \in 1..Len(updated_range) : MatchesAt(updated_range, p)}
    IN IF found = {} THEN 0
       ELSE LET p == CHOOSE q \in found : \A q2 \in found : q <= q2
            IN int_of(SubSeq(updated_range, p + 2, DigitRunEnd(updated_range, p + 2)))

start_row_by_reread(s) == Len(ledger) - Len(s.new_rows) + 1

\* The start row the handler works with: parsed from its own append response.
start_row_of(s) == parsed_start_row(s.updated_range)

row_number_one_based(start_row, i) == start_row + i + 1

\* id_to_row[r[0]] = start_row + i, for i, r in enumerate(new_rows)
row_number(start_row, i) == start_row + i

\* The id_to_row dict built from new_rows (a later row of the same id wins).
id_to_row_of(new_rows, start_row) ==
    [id \in {new_rows[k][1] : k \in 1..Len(new_rows)} |->
        LET last == CHOOSE k \in 1..Len(new_rows) :
                       /\ new_rows[k][1] = id
                       /\ \A k2 \in 1..Len(new_rows) : new_rows[k2][1] = id => k2 <= k
        IN row_number(start_row, last - 1)]

\* ev["rowNumber"] = id_to_row[ev["castingId"]] for the events whose id is there.
with_row_numbers(events, id_to_row) ==
    [k \in 1..Len(events) |->
        IF events[k].castingId \in DOMAIN id_to_row
        THEN [events[k] EXCEPT !.rowNumber = << id_to_row[events[k].castingId] >>]
        ELSE events[k]]

resolved_even_unparsed(s, start_row) ==
    LET id_to_row == id_to_row_of(s.new_rows, start_row)
        events == IF start_row > 0 THEN with_row_numbers(s.internal_events, id_to_row)
                  ELSE s.internal_events
    IN [s EXCEPT !.pc = "done", !.internal_events = events,
                 !.response = SpecialResponse(200, TRUE, events, "")]

\* Lines 673-690 and the return: the row numbers are resolved only when there
\* are internal events and the start row was parsed; otherwise the response
\* keeps calendar_events = [].
resolved(s, start_row) ==
    IF s.internal_events # << >> /\ start_row > 0
    THEN LET id_to_row == id_to_row_of(s.new_rows, start_row)
             events == with_row_numbers(s.internal_events, id_to_row)
         IN [s EXCEPT !.pc = "done", !.id_to_row = id_to_row,
                      !.internal_events = events,
                      !.response = SpecialResponse(200, TRUE, events, "")]
    ELSE [s EXCEPT !.pc = "done", !.response = SpecialResponse(200, TRUE, << >>, "")]

rows_of_cast_thread_on_first(r, s, cid_str, cast, ts, permalink) ==
    [d \in 1..Len(s.payload.dates) |->
        LedgerRow(uuid4(r, Len(s.new_rows) + d), account_name_of(s.payload),
                  s.payload.title, cid_str, cast.name, date_str(s.payload.dates[d]),
                  status_of(cast), time_range_of(s.payload),
                  IF d = 1 THEN ts ELSE None, IF d = 1 THEN permalink ELSE "",
                  "2026-11-05 12:00:00", s.payload.ordererEmail, cast.type, cast.email)]

\* The rows and calendar descriptors of one cast: one per date, in date order.
rows_of_cast(r, s, cid_str, cast, ts, permalink) ==
    [d \in 1..Len(s.payload.dates) |->
        LedgerRow(uuid4(r, Len(s.new_rows) + d), account_name_of(s.payload),
                  s.payload.title, cid_str, cast.name, date_str(s.payload.dates[d]),
                  status_of(cast), time_range_of(s.payload), ts, permalink,
                  "2026-11-05 12:00:00", s.payload.ordererEmail, cast.type, cast.email)]

events_of_every_cast(r, s, cast) ==
    [d \in 1..Len(s.payload.dates) |->
        internal_event(uuid4(r, Len(s.new_rows) + d), s.payload, cast,
                       date_str(s.payload.dates[d]))]

\* The calendar descriptors of one cast: one per date when the cast is internal.
events_of_cast(r, s, cast) ==
    IF cast.type = "NAIBU"
    THEN [d \in 1..Len(s.payload.dates) |->
            internal_event(uuid4(r, Len(s.new_rows) + d), s.payload, cast,
                           date_str(s.payload.dates[d]))]
    ELSE << >>

special_failed_swallowed(s, detail) ==
    [s EXCEPT !.pc = "done",
              !.response = SpecialResponse(200, TRUE, s.internal_events, "")]

\* except Exception as e: raise HTTPException(status_code=500, detail=str(e)),
\* the handler of the try block that spans the whole request.
special_failed(s, detail) ==
    [s EXCEPT !.pc = "done", !.response = SpecialResponse(500, FALSE, << >>, detail)]

\* The state after the two roster loads, each in its own try block: what a
\* load that failed would have filled stays empty.
rosters_loaded(s, internal_ok, general_ok) ==
    LET emails1 == IF internal_ok THEN internal_email_map(SkipHeader(InternalRosterRows))
                   ELSE << >>
    IN [s EXCEPT
          !.rosters = [internal |-> internal_ok, general |-> general_ok],
          !.cast_map = IF general_ok THEN cast_map_of(SkipHeader(CastListRows)) ELSE << >>,
          !.email_to_slack_map =
              IF general_ok THEN general_email_map(emails1, SkipHeader(CastListRows))
              ELSE emails1]

after_rosters_or_abort(s, internal_ok, general_ok) ==
    IF ~internal_ok \/ ~general_ok
    THEN special_failed(rosters_loaded(s, internal_ok, general_ok), "roster not loaded")
    ELSE [rosters_loaded(s, internal_ok, general_ok) EXCEPT !.pc = "cast"]

\* From the roster loads on to the loop over castIds, whatever the loads did;
\* with no cast id there is no row and the response is the empty one.
after_rosters(s, internal_ok, general_ok) ==
    IF s.payload.castIds = << >>
    THEN [rosters_loaded(s, internal_ok, general_ok) EXCEPT
             !.pc = "done", !.response = SpecialResponse(200, TRUE, << >>, "")]
    ELSE [rosters_loaded(s, internal_ok, general_ok) EXCEPT !.pc = "cast"]

\* The request arrives: the token check, opening the sheet (which may raise),
\* then the two roster loads, each of which may fail on its own.
SpecialReceive(r, payloads, outcomes) ==
    /\ sp[r].pc = "idle"
    /\ \E payload \in payloads, opened \in outcomes, internal_ok \in outcomes,
          general_ok \in outcomes :
         LET s == [SpecialIdle EXCEPT !.payload = payload]
         IN sp' = [sp EXCEPT ![r] =
              IF ~Truthy(SLACK_BOT_TOKEN)
              THEN [s EXCEPT !.pc = "done",
                        !.response = SpecialResponse(500, FALSE, << >>, "Slack BOT TOKEN not set")]
              ELSE IF ~opened
              THEN special_failed(s, "sheet not found")
              ELSE after_rosters(s, internal_ok, general_ok)]
    /\ UNCHANGED << env, beyond_special, ledger >>

\* The results of the chat calls for one cast: the post raises; the post
\* returns a ts and the permalink fetch raises; both return.
PostResults == {"raised", "posted", "linked"}

\* One turn of the loop over castIds: the message of the cast is posted to the
\* default channel, then its rows (one per date) are built.
SpecialPost(r, results) ==
    /\ sp[r].pc = "cast"
    /\ \E result \in results :
         LET s == sp[r]
             cid_str == s.payload.castIds[s.i]
             cast == resolve_cast(s.cast_map, cid_str)
             msg == special_msg(s.payload, cast, s.email_to_slack_map)
             ts == IF result = "raised" THEN None ELSE "1731.00" \o ToString(r) \o ToString(s.i)
             permalink == IF result = "linked" THEN "https://slack.example/p" \o ts ELSE ""
             posts == << Call("chat_postMessage", SLACK_DEFAULT_CHANNEL, msg, None,
                              result # "raised", IF result = "raised" THEN "timeout" ELSE None,
                              ts) >>
                      \o (IF result = "raised" THEN << >>
                          ELSE << Call("chat_getPermalink", SLACK_DEFAULT_CHANNEL, << >>, ts,
                                       result = "linked",
                                       IF result = "linked" THEN None ELSE "timeout",
                                       IF result = "linked" THEN permalink ELSE None) >>)
             next == [s EXCEPT
                        !.calls = @ \o posts,
                        !.new_rows = @ \o rows_of_cast(r, s, cid_str, cast, ts, permalink),
                        !.internal_events = @ \o events_of_cast(r, s, cast),
                        !.i = @ + 1]
         IN sp' = [sp EXCEPT ![r] =
              IF next.i <= Len(s.payload.castIds) THEN next
              ELSE IF next.new_rows # << >> THEN [next EXCEPT !.pc = "append"]
              ELSE [next EXCEPT !.pc = "done",
                                !.response = SpecialResponse(200, TRUE, << >>, "")]]
    /\ UNCHANGED << env, beyond_special, ledger >>

\* What an append can answer: it raises, or returns one of the updatedRange forms.
AppendResults == {"raised", "normal", "shifted", "bare", "missing"}

\* await ws.append_rows(new_rows, ...), as the ledger platform performs it: the
\* rows go below the last row in one write, and the response names the range.
\* The handler resumes with that response in a later step.
SpecialAppend(r, results) ==
    /\ sp[r].pc = "append"
    /\ \E result \in results :
         LET s == sp[r]
         IN IF result = "raised"
            THEN /\ sp' = [sp EXCEPT ![r] =
                             special_failed([s EXCEPT !.append_error = "append failed"],
                                            "append failed")]
                 /\ UNCHANGED ledger
            ELSE /\ ledger' = ledger \o s.new_rows
                 /\ sp' = [sp EXCEPT ![r] = [s EXCEPT
                               !.pc = "resolve",
                               !.first_row = Len(ledger) + 1,
                               !.updated_range =
                                   updated_range_of(result, Len(ledger) + 1, Len(s.new_rows))]]
    /\ UNCHANGED << env, beyond_special >>

\* The handler resumes after the append: row numbers, then the response.
SpecialResolve(r) ==
    /\ sp[r].pc = "resolve"
    /\ sp' = [sp EXCEPT ![r] = resolved(sp[r], start_row_of(sp[r]))]
    /\ UNCHANGED << env, beyond_special, ledger >>

InitSpecial ==
    /\ SLACK_BOT_TOKEN \in {None, "xoxb-1"}
    /\ SLACK_DEFAULT_CHANNEL \in {None, "C_DEFAULT"}
    /\ SLACK_CHANNEL_TEST = None
    /\ SLACK_CHANNEL_TYPE_A = None
    /\ SLACK_CHANNEL_TYPE_B = None
    /\ SLACK_MENTION_GROUP_ID \in {None, "S0001"}
    /\ GAS_URL_NOTION_SYNC = None
    /\ oc = OrderIdle
    /\ slack_calls = << >>
    /\ su = StatusIdle
    /\ gas_calls = << >>
    /\ ledger \in {LedgerOf(1), InitialLedger}
    /\ sp = [r \in Reqs |-> SpecialIdle]
    /\ contacts = InitialContacts
    /\ sc = ContactIdle
    /\ co = ComposeIdle
    /\ sc2 = SecondIdle

\* One special-order request, with every outcome of every call.
NextSpecial ==
    \/ SpecialReceive(1, SpecialPayloads, BOOLEAN)
    \/ SpecialPost(1, PostResults)
    \/ SpecialAppend(1, AppendResults)
    \/ SpecialResolve(1)

SpecSpecial == InitSpecial /\ [][NextSpecial]_vars

\* The payloads of the concurrent requests.
ConcurrentPayloads ==
    {p \in SpecialPayloads :
        p.orderType = "internal" /\ p.castIds \in {<< "c_int" >>, << "c_ext", "c_int" >>}}

InitConcurrent ==
    /\ InitSpecial
    /\ ledger = InitialLedger
    /\ SLACK_BOT_TOKEN = "xoxb-1"
    /\ SLACK_DEFAULT_CHANNEL = "C_DEFAULT"
    /\ SLACK_MENTION_GROUP_ID = None

\* Several special-order requests at once on the same ledger: their steps
\* interleave at every await. The rosters load and the chat calls return.
NextConcurrent ==
    \E r \in Reqs :
        \/ SpecialReceive(r, ConcurrentPayloads, {TRUE})
        \/ SpecialPost(r, {"linked"})
        \/ SpecialAppend(r, {"raised", "normal", "shifted"})
        \/ SpecialResolve(r)

SpecConcurrent == InitConcurrent /\ [][NextConcurrent]_vars

-----------------------------------------------------------------------------
(* add_shooting_contact and update_shooting_contact_status: the steps *)

\* os.getenv("SHOOTING_CONTACT_SHEET_ID") at the time of the request.
SheetIds == {None, "sheet-1"}

\* One writing call on the tab: whether it returned (ok) or raised, and the
\* ranges it carried.
SheetCall(api, ok, data) == [api |-> api, ok |-> ok, data |-> data]

contact_failed(s, code, detail) ==
    [s EXCEPT !.pc = "done", !.response = ContactResponse(code, FALSE, detail)]

\* return {"ok": True}
contact_ok(s) == [s EXCEPT !.pc = "done", !.response = ContactResponse(200, TRUE, "")]

\* POST /api/shooting_contact/add arrives: the required fields, the sheet id.
ContactAddReceive ==
    /\ sc.pc = "idle"
    /\ sc.served < MaxContactRequests
    /\ \E payload \in AddPayloads, sheet_id \in SheetIds :
         LET s == [sc EXCEPT !.op = "add", !.payload = payload, !.row_idx = 0,
                             !.calls = << >>]
         IN sc' = IF first_missing(payload) # None
                  THEN contact_failed(s, 400, "Missing field: " \o first_missing(payload))
                  ELSE IF ~Truthy(sheet_id)
                  THEN contact_failed(s, 500, "SHOOTING_CONTACT_SHEET_ID missing")
                  ELSE [s EXCEPT !.pc = "append"]
    /\ UNCHANGED << env, beyond_contact, contacts >>

\* await sheet.append_row(row, ...): it raises (or opening the sheet does), or
\* the row is appended.
ContactAppend ==
    /\ sc.pc = "append"
    /\ \/ /\ sc' = contact_failed([sc EXCEPT !.calls = << SheetCall("append_row", FALSE, << >>) >>],
                                  500, "append failed")
          /\ UNCHANGED contacts
       \/ /\ contacts' = append_row(contacts, contact_row(sc.payload))
          /\ sc' = contact_ok([sc EXCEPT !.calls = << SheetCall("append_row", TRUE, << >>) >>])
    /\ UNCHANGED << env, beyond_contact >>

\* POST /api/shooting_contact/update arrives: the sheet id.
ContactUpdateReceive ==
    /\ sc.pc = "idle"
    /\ sc.served < MaxContactRequests
    /\ \E payload \in UpdatePayloads, sheet_id \in SheetIds :
         LET s == [sc EXCEPT !.op = "update", !.payload = payload, !.row_idx = 0,
                             !.calls = << >>]
         IN sc' = IF ~Truthy(sheet_id)
                  THEN contact_failed(s, 500, "SHOOTING_CONTACT_SHEET_ID missing")
                  ELSE [s EXCEPT !.pc = "find"]
    /\ UNCHANGED << env, beyond_contact, contacts >>

\* col_a = await sheet.col_values(1), then col_a.index(payload.castingId) + 1:
\* the read raises (500), the id is not there (404), or the row is found.
ContactFind ==
    /\ sc.pc = "find"
    /\ \/ sc' = contact_failed(sc, 500, "Update failed")
       \/ LET row_idx == index_of(col_values(contacts, 1), sc.payload.castingId)
          IN sc' = IF row_idx = 0
                   THEN contact_failed(sc, 404, "Casting ID not found")
                   ELSE [sc EXCEPT !.pc = "write", !.row_idx = row_idx]
    /\ UNCHANGED << env, beyond_contact, contacts >>

\* await sheet.batch_update(updates): it raises, or the batch is written.
ContactWrite ==
    /\ sc.pc = "write"
    /\ LET updates == updates_of(sc.payload, sc.row_idx, now_str(sc.served + 1))
       IN \/ /\ sc' = contact_failed(
                           [sc EXCEPT !.calls = << SheetCall("batch_update", FALSE, updates) >>],
                           500, "Update failed")
             /\ UNCHANGED contacts
          \/ /\ contacts' = batch_update(contacts, updates)
             /\ sc' = contact_ok(
                           [sc EXCEPT !.calls = << SheetCall("batch_update", TRUE, updates) >>])
    /\ UNCHANGED << env, beyond_contact >>

\* The response has gone out; the server waits for the next request.
ContactFinish ==
    /\ sc.pc = "done"
    /\ sc' = [ContactIdle EXCEPT !.served = sc.served + 1]
    /\ UNCHANGED << env, beyond_contact, contacts >>

InitContact ==
    /\ SLACK_BOT_TOKEN = "xoxb-1"
    /\ SLACK_DEFAULT_CHANNEL = "C_DEFAULT"
    /\ SLACK_CHANNEL_TEST = None
    /\ SLACK_CHANNEL_TYPE_A = None
    /\ SLACK_CHANNEL_TYPE_B = None
    /\ SLACK_MENTION_GROUP_ID = None
    /\ GAS_URL_NOTION_SYNC = None
    /\ oc = OrderIdle
    /\ slack_calls = << >>
    /\ su = StatusIdle
    /\ gas_calls = << >>
    /\ ledger = InitialLedger
    /\ sp = [r \in Reqs |-> SpecialIdle]
    /\ contacts = InitialContacts
    /\ sc = ContactIdle
    /\ co = ComposeIdle
    /\ sc2 = SecondIdle

NextContact ==
    \/ ContactAddReceive
    \/ ContactAppend
    \/ ContactUpdateReceive
    \/ ContactFind
    \/ ContactWrite
    \/ ContactFinish

SpecContact == InitContact /\ [][NextContact]_vars

-----------------------------------------------------------------------------
(* A client that sends its update again *)

\* The client of an update that went through sends the same request once more
\* (its response was lost, say): the handler starts over with that payload.
ContactRetry ==
    /\ sc.pc = "done" /\ sc.op = "update" /\ sc.response.ok /\ ~sc.again
    /\ \E sheet_id \in SheetIds :
         LET s == [ContactIdle EXCEPT !.op = "update", !.payload = sc.payload,
                                      !.served = sc.served + 1, !.again = TRUE]
         IN sc' = IF ~Truthy(sheet_id)
                  THEN contact_failed(s, 500, "SHOOTING_CONTACT_SHEET_ID missing")
                  ELSE [s EXCEPT !.pc = "find"]
    /\ UNCHANGED << env, beyond_contact, contacts >>

NextRetry == NextContact \/ ContactRetry

SpecRetry == InitContact /\ [][NextRetry]_vars

-----------------------------------------------------------------------------
(* update_shooting_contact_status served while another request is *)

\* POST /api/shooting_contact/update arrives while other requests are served.
SecondReceive ==
    /\ sc2.pc = "idle"
    /\ \E payload \in SecondPayloads, sheet_id \in SheetIds :
         LET s == [SecondIdle EXCEPT !.payload = payload]
         IN sc2' = IF ~Truthy(sheet_id)
                   THEN contact_failed(s, 500, "SHOOTING_CONTACT_SHEET_ID missing")
                   ELSE [s EXCEPT !.pc = "find"]
    /\ UNCHANGED << env, beyond_second, contacts >>

\* col_a = await sheet.col_values(1), then the index of the id in what was read.
SecondFind ==
    /\ sc2.pc = "find"
    /\ \/ sc2' = contact_failed(sc2, 500, "Update failed")
       \/ LET col_a == col_values(contacts, 1)
              row_idx == index_of(col_a, sc2.payload.castingId)
          IN sc2' = IF row_idx = 0
                    THEN contact_failed([sc2 EXCEPT !.col_a = col_a], 404, "Casting ID not found")
                    ELSE [sc2 EXCEPT !.pc = "write", !.col_a = col_a, !.row_idx = row_idx]
    /\ UNCHANGED << env, beyond_second, contacts >>

\* await sheet.batch_update(updates), on the tab as it is by then.
SecondWrite ==
    /\ sc2.pc = "write"
    /\ LET updates == updates_of(sc2.payload, sc2.row_idx, now_str(0))
       IN \/ /\ sc2' = contact_failed(
                           [sc2 EXCEPT !.calls = << SheetCall("batch_update", FALSE, updates) >>],
                           500, "Update failed")
             /\ UNCHANGED contacts
          \/ /\ contacts' = batch_update(contacts, updates)
             /\ sc2' = contact_ok(
                           [sc2 EXCEPT !.calls = << SheetCall("batch_update", TRUE, updates) >>])
    /\ UNCHANGED << env, beyond_second >>

\* The other request, one add or one update, at any point of the second one.
NextOther ==
    /\ sc.served = 0
    /\ \/ ContactAddReceive
       \/ ContactAppend
       \/ ContactUpdateReceive
       \/ ContactFind
       \/ ContactWrite

NextRace == NextOther \/ SecondReceive \/ SecondFind \/ SecondWrite

SpecRace == InitContact /\ [][NextRace]_vars

-----------------------------------------------------------------------------
(* build_order_text on its own *)

\* The projects and roles of the candidates of a composition.
ComposeRoles == {<< "P1", "hero" >>, << "P1", "rival" >>, << "P2", "hero" >>}

\* The caller puts one more candidate on payload.orders: of one of the roles,
\* of rank 1 or 2, with or without conflictInfo.
ComposeAdd ==
    /\ co.pc = "idle"
    /\ Len(co.payload.orders) < MaxOrders
    /\ \E role \in ComposeRoles, rank \in {1, 2}, conflict \in BOOLEAN :
         co' = [co EXCEPT !.payload.orders =
                   Append(@, ComposeCand(Len(@) + 1, role[1], role[2], rank, conflict))]
    /\ UNCHANGED << env, beyond_compose >>

\* text = build_order_text(payload), the standard message.
ComposeCall ==
    /\ co.pc = "idle"
    /\ co' = [co EXCEPT !.pc = "done", !.text = build_order_text(co.payload, None)]
    /\ UNCHANGED << env, beyond_compose >>

InitCompose ==
    /\ SLACK_BOT_TOKEN = "xoxb-1"
    /\ SLACK_DEFAULT_CHANNEL = "C_DEFAULT"
    /\ SLACK_CHANNEL_TEST = None
    /\ SLACK_CHANNEL_TYPE_A = None
    /\ SLACK_CHANNEL_TYPE_B = None
    /\ SLACK_MENTION_GROUP_ID = "S0001"
    /\ GAS_URL_NOTION_SYNC = None
    /\ oc = OrderIdle
    /\ slack_calls = << >>
    /\ su = StatusIdle
    /\ gas_calls = << >>
    /\ ledger = InitialLedger
    /\ sp = [r \in Reqs |-> SpecialIdle]
    /\ contacts = InitialContacts
    /\ sc = ContactIdle
    /\ co = ComposeIdle
    /\ sc2 = SecondIdle

NextCompose == ComposeAdd \/ ComposeCall

SpecCompose == InitCompose /\ [][NextCompose]_vars

-----------------------------------------------------------------------------
(* build_order_text called twice on one payload, as notify_order_created does *)

\* The caller puts one more candidate on a payload it will compose twice.
ComposeAddFew ==
    /\ Len(co.payload.orders) < MaxRecomposed
    /\ ComposeAdd

\* The first call, build_order_text(payload, upload_error): either variant of
\* the message, with or without an upload error.
ComposeFirst ==
    /\ co.pc = "idle"
    /\ \E additional \in BOOLEAN, upload_error \in {None, "timeout"} :
         LET payload == [co.payload EXCEPT !.isAdditionalOrder = additional]
         IN co' = [co EXCEPT !.pc = "composed",
                             !.given = payload.orders,
                             !.upload_error = upload_error,
                             !.text = build_order_text(payload, upload_error),
                             !.payload = [payload EXCEPT
                                            !.orders = orders_after_compose(payload)]]
    /\ UNCHANGED << env, beyond_compose >>

\* The second call, on the payload as the first call left it.
ComposeSecond ==
    /\ co.pc = "composed"
    /\ co' = [co EXCEPT !.pc = "done",
                        !.again = build_order_text(co.payload, co.upload_error),
                        !.payload.orders = orders_after_compose(co.payload)]
    /\ UNCHANGED << env, beyond_compose >>

InitRecompose ==
    /\ SLACK_BOT_TOKEN = "xoxb-1"
    /\ SLACK_DEFAULT_CHANNEL = "C_DEFAULT"
    /\ SLACK_CHANNEL_TEST = None
    /\ SLACK_CHANNEL_TYPE_A = None
    /\ SLACK_CHANNEL_TYPE_B = None
    /\ SLACK_MENTION_GROUP_ID \in {None, "S0001"}
    /\ GAS_URL_NOTION_SYNC = None
    /\ oc = OrderIdle
    /\ slack_calls = << >>
    /\ su = StatusIdle
    /\ gas_calls = << >>
    /\ ledger = InitialLedger
    /\ sp = [r \in Reqs |-> SpecialIdle]
    /\ contacts = InitialContacts
    /\ sc = ContactIdle
    /\ co = ComposeIdle
    /\ sc2 = SecondIdle

NextRecompose == ComposeAddFew \/ ComposeFirst \/ ComposeSecond

SpecRecompose == InitRecompose /\ [][NextRecompose]_vars

-----------------------------------------------------------------------------
(* An order, then a status update that replies into the order's thread *)

\* The status updates a client sends about an order it was answered ts for:
\* slackThreadTs is that ts.
ThreadReplies(ts) ==
    {[castingId |-> "k1", newStatus |-> status, castName |-> "Ann", slackThreadTs |-> ts,
      extraMessage |-> None, isInternal |-> FALSE, projectId |-> None,
      mainSub |-> "sonota", orderDetails |-> None] : status \in {"OK", "TSUIKA ORDER"}}

\* The status update arrives once the order request has answered with a ts.
ThreadStatusReceive ==
    /\ oc.pc = "done"
    /\ Truthy(oc.response.ts)
    /\ StatusReceiveFrom(ThreadReplies(oc.response.ts))

InitThread ==
    /\ SLACK_BOT_TOKEN = "xoxb-1"
    /\ SLACK_DEFAULT_CHANNEL = "C_DEFAULT"
    /\ SLACK_CHANNEL_TEST \in {None, "C_TEST"}
    /\ SLACK_CHANNEL_TYPE_A \in {None, "C_A"}
    /\ SLACK_CHANNEL_TYPE_B = None
    /\ SLACK_MENTION_GROUP_ID = None
    /\ GAS_URL_NOTION_SYNC = None
    /\ oc = OrderIdle
    /\ slack_calls = << >>
    /\ su = StatusIdle
    /\ gas_calls = << >>
    /\ ledger = InitialLedger
    /\ sp = [r \in Reqs |-> SpecialIdle]
    /\ contacts = InitialContacts
    /\ sc = ContactIdle
    /\ co = ComposeIdle
    /\ sc2 = SecondIdle

NextThread ==
    \/ OrderReceive
    \/ OrderUpload
    \/ OrderPost
    \/ OrderPermalink
    \/ ThreadStatusReceive
    \/ StatusPost

SpecThread == InitThread /\ [][NextThread]_vars

-----------------------------------------------------------------------------
(* The service as a whole: the traffic of one endpoint at a time *)

\* An endpoint has served nothing yet, or is back where it started.
OrderQuiet == oc = OrderIdle

StatusQuiet == su = StatusIdle /\ gas_calls = << >>

SpecialQuiet == sp = [r \in Reqs |-> SpecialIdle] /\ ledger = InitialLedger

ContactQuiet == sc = ContactIdle /\ contacts = InitialContacts

\* The special orders of the whole-service runs: an outside and an in-house cast.
ServicePayloads == {p \in ConcurrentPayloads : p.castIds = << "c_ext", "c_int" >>}

\* Special-order requests one after another (a retry is the next request with
\* the same payload); a chat call or the append may raise.
NextSpecialInTurn ==
    \E r \in Reqs :
        /\ IF r = 1 THEN TRUE ELSE sp[r - 1].pc = "done"
        /\ \/ SpecialReceive(r, ServicePayloads, {TRUE})
           \/ SpecialPost(r, {"raised", "linked"})
           \/ SpecialAppend(r, {"raised", "normal"})
           \/ SpecialResolve(r)

InitService ==
    /\ SLACK_BOT_TOKEN = "xoxb-1"
    /\ SLACK_DEFAULT_CHANNEL = "C_DEFAULT"
    /\ SLACK_CHANNEL_TEST = None
    /\ SLACK_CHANNEL_TYPE_A = None
    /\ SLACK_CHANNEL_TYPE_B = None
    /\ SLACK_MENTION_GROUP_ID = None
    /\ GAS_URL_NOTION_SYNC = "https://script.example/exec"
    /\ oc = OrderIdle
    /\ slack_calls = << >>
    /\ su = StatusIdle
    /\ gas_calls = << >>
    /\ ledger = InitialLedger
    /\ sp = [r \in Reqs |-> SpecialIdle]
    /\ contacts = InitialContacts
    /\ sc = ContactIdle
    /\ co = ComposeIdle
    /\ sc2 = SecondIdle

\* Every endpoint of the service, each running while the others are quiet.
NextService ==
    \/ (StatusQuiet /\ SpecialQuiet /\ ContactQuiet /\ Next)
    \/ (OrderQuiet /\ SpecialQuiet /\ ContactQuiet /\ NextStatus)
    \/ (OrderQuiet /\ StatusQuiet /\ ContactQuiet /\ NextSpecialInTurn)
    \/ (OrderQuiet /\ StatusQuiet /\ SpecialQuiet /\ NextContact)

SpecService == InitService /\ [][NextService]_vars

-----------------------------------------------------------------------------
(* Claims about notify_order_created and pick_channel (Spec) *)

CallsOf(api) == {i \in 1..Len(slack_calls) : slack_calls[i].api = api}

\* The message-producing calls (upload with caption, text post) that returned.
AcknowledgedSends ==
    {i \in CallsOf("files_upload_v2") \cup CallsOf("chat_postMessage") : slack_calls[i].ok}

\* The request passed payload validation and the chat-configuration check.
OrderAccepted ==
    /\ oc.pc # "idle"
    /\ oc.response.detail \notin {"Payload error", "Slack Config Error"}

OrderDone == oc.pc = "done" /\ OrderAccepted

\* C1 as claimed: every accepted request ends with exactly one message sent,
\* also when the upload and the text post fail.
C1_ExactlyOneMessageAlways ==
    OrderDone => Cardinality(AcknowledgedSends) = 1

\* C1 amended: a request never has two acknowledged sends; one that returns
\* success has exactly one; one whose text post raises answers 500 and has none.
C1_OneMessageUnlessPostFails ==
    /\ Cardinality(AcknowledgedSends) <= 1
    /\ (OrderDone /\ oc.response.status = 200) => Cardinality(AcknowledgedSends) = 1
    /\ (OrderDone /\ oc.response.status # 200) =>
          /\ oc.response.status = 500
          /\ AcknowledgedSends = {}
          /\ \E i \in CallsOf("chat_postMessage") : ~slack_calls[i].ok

C1_Witness ==
    /\ OrderDone /\ oc.response.status = 200
    /\ \E i \in CallsOf("files_upload_v2") : ~slack_calls[i].ok
    /\ \E i \in CallsOf("chat_postMessage") : slack_calls[i].ok

\* C2: the text post is attempted exactly when no upload returned; a request
\* never has both an upload that returned and a text post.
C2_UploadXorTextPost ==
    /\ ~ (/\ \E i \in CallsOf("files_upload_v2") : slack_calls[i].ok
          /\ CallsOf("chat_postMessage") # {})
    /\ OrderDone =>
          (CallsOf("chat_postMessage") # {}
             <=> ~ \E i \in CallsOf("files_upload_v2") : slack_calls[i].ok)
    /\ Cardinality(CallsOf("chat_postMessage")) <= 1
    /\ Cardinality(CallsOf("files_upload_v2")) <= 1

C2_Witness ==
    /\ OrderDone
    /\ \E i \in CallsOf("files_upload_v2") : slack_calls[i].ok
    /\ CallsOf("chat_postMessage") = {}

\* The text shows the upload error e: the "Reason:" line of the standard
\* message or the PDF-send-error line of the additional-order message.
EmbedsUploadError(text, e) ==
    \E k \in 1..Len(text) :
        text[k] \in {"Reason: " \o e, "(!) PDF soushin error: " \o e}

\* C3: when the upload raises, the request goes on: a text post to the same
\* channel and thread follows, its text shows the upload error, and if that
\* post returns the response is a success whose upload_error is that error.
C3_UploadFailureFallsBackToText ==
    \A i \in CallsOf("files_upload_v2") :
        (~slack_calls[i].ok /\ oc.pc \in {"permalink", "done"}) =>
            \E j \in CallsOf("chat_postMessage") :
                /\ j > i
                /\ slack_calls[j].channel = slack_calls[i].channel
                /\ slack_calls[j].thread_ts = slack_calls[i].thread_ts
                /\ EmbedsUploadError(slack_calls[j].text, slack_calls[i].error)
                /\ (slack_calls[j].ok /\ oc.pc = "done") =>
                      /\ oc.response.status = 200 /\ oc.response.ok
                      /\ oc.response.upload_error = slack_calls[i].error
                      /\ oc.response.upload_error # None

C3_Witness ==
    /\ oc.pc = "done" /\ oc.response.status = 200
    /\ oc.response.upload_error \in UploadErrors
    /\ \E j \in CallsOf("chat_postMessage") :
          slack_calls[j].ok /\ slack_calls[j].thread_ts # None

\* The ts the request obtained: what its send call returned.
ObtainedTs ==
    IF AcknowledgedSends = {} THEN None
    ELSE slack_calls[CHOOSE i \in AcknowledgedSends : TRUE].result

\* C4: the permalink is fetched exactly when a ts was obtained, and a fetch
\* that raises leaves a successful response with permalink "" and that ts.
C4_PermalinkBestEffort ==
    /\ OrderDone => (CallsOf("chat_getPermalink") # {} <=> Truthy(ObtainedTs))
    /\ \A i \in CallsOf("chat_getPermalink") :
          /\ slack_calls[i].thread_ts = ObtainedTs
          /\ Truthy(ObtainedTs)
          /\ (~slack_calls[i].ok /\ oc.pc = "done") =>
                /\ oc.response.status = 200 /\ oc.response.ok
                /\ oc.response.permalink = ""
                /\ oc.response.ts = ObtainedTs

C4_Witness ==
    /\ oc.pc = "done"
    /\ \E i \in CallsOf("chat_getPermalink") : ~slack_calls[i].ok
    /\ \E i \in CallsOf("chat_postMessage") : slack_calls[i].ok

\* The first truthy value of a chain, else its last value (Python's or-chain).
RECURSIVE FirstConfigured(_)
FirstConfigured(chain) ==
    IF Len(chain) = 1 \/ Truthy(Head(chain)) THEN Head(chain)
    ELSE FirstConfigured(Tail(chain))

TypeChannel(order_type) ==
    IF order_type = "pattern_a" THEN SLACK_CHANNEL_TYPE_A
    ELSE IF order_type = "pattern_b" THEN SLACK_CHANNEL_TYPE_B
    ELSE SLACK_CHANNEL_TEST

\* C5 as claimed: for every order type the channel is the first configured of
\* type-specific, test, default, and "" when none is.
C5_ChainThroughTestChannel ==
    (OrderAccepted /\ oc.pc # "done") =>
        oc.channel =
            FirstConfigured(<< TypeChannel(oc.payload.orderType), SLACK_CHANNEL_TEST,
                               SLACK_DEFAULT_CHANNEL, "" >>)

\* C5 amended: pattern_a and pattern_b go type-specific then default (the test
\* channel is not consulted, and with neither configured the result is the unset
\* default itself, None or ""); test goes test, default, "". The running
\* request uses that channel.
C5_ChainPerOrderType ==
    /\ \A t \in {"pattern_a", "pattern_b"} :
          pick_channel(t) = FirstConfigured(<< TypeChannel(t), SLACK_DEFAULT_CHANNEL >>)
    /\ pick_channel("test") =
          FirstConfigured(<< SLACK_CHANNEL_TEST, SLACK_DEFAULT_CHANNEL, "" >>)
    /\ (OrderAccepted /\ oc.pc # "done") =>
          oc.channel = FirstConfigured(
              IF oc.payload.orderType = "test"
              THEN << SLACK_CHANNEL_TEST, SLACK_DEFAULT_CHANNEL, "" >>
              ELSE << TypeChannel(oc.payload.orderType), SLACK_DEFAULT_CHANNEL >>)

C5_Witness ==
    /\ OrderAccepted /\ oc.pc = "post"
    /\ oc.payload.orderType = "pattern_a"
    /\ ~Truthy(SLACK_CHANNEL_TYPE_A) /\ Truthy(SLACK_CHANNEL_TEST)
    /\ oc.channel = SLACK_DEFAULT_CHANNEL

-----------------------------------------------------------------------------
(* Claims about notify_status_update and the sync relay (SpecStatus) *)

\* C6: the relay is scheduled (and so can only ever POST) only for a status of
\* OK or KETTEI with projectId and castName both non-empty, whatever the thread
\* reference and the chat outcome.
C6_RelayOnlyForConfirmedWithIds ==
    (su.scheduled > 0 \/ su.tasks # << >> \/ gas_calls # << >>) =>
        /\ su.payload.newStatus \in {"OK", "KETTEI"}
        /\ su.payload.projectId \notin {None, ""}
        /\ su.payload.castName \notin {None, ""}

C6_Witness ==
    /\ su.pc = "done" /\ su.scheduled = 1 /\ su.tasks # << >>
    /\ su.response.status = 500
    /\ \E i \in CallsOf("chat_postMessage") : ~slack_calls[i].ok

\* C7: the relay POSTs at most once per status event, only after the response
\* is fixed, and no step taken after the response is fixed changes it: the
\* response is the same whatever the POST does.
C7_RelayOutcomeNeverSurfaces ==
    /\ [](Len(gas_calls) <= 1 /\ Len(gas_calls) <= su.scheduled)
    /\ [](gas_calls # << >> => su.pc = "done" /\ su.response.status # 0)
    /\ [][(su.pc = "done" /\ su'.pc = "done") => su'.response = su.response]_vars

C7_Witness ==
    /\ su.pc = "done" /\ su.response.status = 200 /\ su.tasks = << >>
    /\ gas_calls # << >> /\ gas_calls[1].outcome = "raised"

-----------------------------------------------------------------------------
(* Claims about notify_special_order and the ledger (SpecSpecial, SpecConcurrent) *)

\* The append of request s answered with the usual range of the rows it wrote.
AnsweredWithRange(s) ==
    /\ s.first_row > 0
    /\ s.updated_range = updated_range_of("normal", s.first_row, Len(s.new_rows))

\* The rows of request s are in the ledger where its append wrote them.
RowsAppended(s) ==
    /\ s.first_row > 0
    /\ s.first_row + Len(s.new_rows) - 1 <= Len(ledger)
    /\ SubSeq(ledger, s.first_row, s.first_row + Len(s.new_rows) - 1) = s.new_rows

\* C8: after a batch append answered with its range, the number resolved for
\* the i-th row (0-based) of the batch is the first written row + i, so the
\* numbers are consecutive, and each returned calendar descriptor carries the
\* number of the batch row with its castingId.
C8_RowNumbersFollowBatchOrder ==
    \A r \in Reqs :
        LET s == sp[r]
        IN (s.pc = "done" /\ AnsweredWithRange(s) /\ s.internal_events # << >>) =>
              /\ s.response.status = 200
              /\ s.response.calendar_events = s.internal_events
              /\ \A k \in 1..Len(s.new_rows) :
                    s.id_to_row[s.new_rows[k][1]] = s.first_row + (k - 1)
              /\ \A e \in 1..Len(s.response.calendar_events) :
                    \E k \in 1..Len(s.new_rows) :
                       /\ s.new_rows[k][1] = s.response.calendar_events[e].castingId
                       /\ s.response.calendar_events[e].rowNumber
                             = << s.first_row + (k - 1) >>

C8_Witness ==
    /\ sp[1].pc = "done" /\ AnsweredWithRange(sp[1])
    /\ sp[1].first_row >= 10
    /\ Len(sp[1].new_rows) >= 3
    /\ Len(sp[1].response.calendar_events) >= 2
    /\ Len(sp[1].response.calendar_events) < Len(sp[1].new_rows)

\* C9: when the range the append answered with cannot be parsed, the request
\* still returns success, its rows stay appended, every descriptor's row number
\* stays null, and the response offers no calendar descriptors.
C9_UnparsedRangeDegrades ==
    \A r \in Reqs :
        LET s == sp[r]
        IN (s.pc = "done" /\ s.first_row > 0 /\ ~AnsweredWithRange(s)) =>
              /\ s.response.status = 200 /\ s.response.ok
              /\ RowsAppended(s)
              /\ \A e \in 1..Len(s.internal_events) : s.internal_events[e].rowNumber = NoRow
              /\ s.id_to_row = << >>
              /\ s.response.calendar_events = << >>

C9_Witness ==
    /\ sp[1].pc = "done" /\ sp[1].first_row > 0 /\ ~AnsweredWithRange(sp[1])
    /\ sp[1].updated_range # << >>
    /\ sp[1].internal_events # << >>
    /\ sp[1].response.status = 200

\* C10: whatever the interleaving of the concurrent requests, every row number
\* a request returns in a calendar descriptor is the number of the ledger row
\* that holds the descriptor's castingId.
C10_ReturnedRowsHoldTheirCastingId ==
    \A r \in Reqs :
        \A e \in 1..Len(sp[r].response.calendar_events) :
            LET ev == sp[r].response.calendar_events[e]
            IN /\ ev.rowNumber # NoRow
               /\ ev.rowNumber[1] \in 1..Len(ledger)
               /\ ledger[ev.rowNumber[1]][1] = ev.castingId

\* Request 2 appended first and has not resumed; request 1 appended after it
\* and has already answered with its row numbers.
C10_Witness ==
    /\ sp[2].pc = "resolve" /\ sp[2].internal_events # << >>
    /\ sp[1].pc = "done" /\ sp[1].response.calendar_events # << >>
    /\ sp[2].first_row < sp[1].first_row

-----------------------------------------------------------------------------
(* Claims about the ledger tabs as a whole (SpecService, SpecContact) *)

\* No two rows of the tab hold the same value in position 0.
KeysDistinct(rows) ==
    \A i \in 1..Len(rows) : \A j \in 1..Len(rows) :
        (i # j) => Cell(rows, i, 1) # Cell(rows, j, 1)

\* C11 as claimed: after any appends of special orders and of
\* add_shooting_contact, retried requests included, no two rows of a ledger tab
\* hold the same castingId in position 0.
C11_CastingIdsUniqueOnEveryTab == KeysDistinct(ledger) /\ KeysDistinct(contacts)

\* C11, amended: the rows special orders append each get a fresh castingId, so
\* no two rows of the casting-list tab hold the same one, retried requests
\* included; on the shooting-contact tab two rows hold the same castingId only
\* when an add request appended the later of them.
C11_SpecialOrderIdsUnique ==
    /\ KeysDistinct(ledger)
    /\ \A i \in 1..Len(contacts) : \A j \in 1..Len(contacts) :
          (i < j /\ Cell(contacts, i, 1) = Cell(contacts, j, 1)) => j > Len(InitialContacts)

\* A special order was retried with the same payload and both requests
\* appended their rows.
C11_Witness ==
    /\ sp[1].pc = "done" /\ sp[2].pc = "done"
    /\ sp[1].payload = sp[2].payload
    /\ RowsAppended(sp[1]) /\ RowsAppended(sp[2])
    /\ Len(sp[1].new_rows) >= 2

\* The fields of the update payload that are present (not None).
PresentFields(payload) == {f \in DOMAIN UpdateValues : payload[f] # None}

\* C12: a successful update leaves every other row as it was and the tab as
\* long as it was; in the resolved row, read field by field as the list
\* endpoint reads it, each present field holds the payload's value, the
\* last-modified field holds the time of the update, and every other field
\* (absent fields included) holds what it held before; the write is one
\* batch_update, of one range per present field plus one for the timestamp.
C12_UpdateWritesOnlyPresentFields ==
    [][(sc.pc = "write" /\ sc'.pc = "done" /\ sc'.response.status = 200) =>
          LET payload == sc.payload
              before == list_record(contacts[sc.row_idx])
              after == list_record(contacts'[sc.row_idx])
              data == sc'.calls[1].data
          IN /\ Len(contacts') = Len(contacts)
             /\ \A r \in 1..Len(contacts) : (r # sc.row_idx) => contacts'[r] = contacts[r]
             /\ \A f \in PresentFields(payload) : after[f] = payload[f]
             /\ after.updatedAt = now_str(sc.served + 1)
             /\ \A f \in (DOMAIN before) \ (PresentFields(payload) \cup {"updatedAt"}) :
                   after[f] = before[f]
             /\ Len(sc'.calls) = 1 /\ sc'.calls[1].api = "batch_update"
             /\ Len(data) = Cardinality(PresentFields(payload)) + 1
             /\ \A u \in 1..Len(data) : data[u].range.row = sc.row_idx]_vars

\* An update of the status alone went through on a row whose other fields
\* hold values: they are still there, and the timestamp is the update's.
C12_Witness ==
    /\ sc.pc = "done" /\ sc.op = "update" /\ sc.response.status = 200
    /\ PresentFields(sc.payload) = {"status"}
    /\ list_record(contacts[sc.row_idx]).status = "OK"
    /\ list_record(contacts[sc.row_idx]).inTime = "09:00"
    /\ list_record(contacts[sc.row_idx]).updatedAt = now_str(sc.served + 1)

\* The rows whose position-0 cell is exactly the castingId.
RowsOfKey(id) == {r \in 1..Len(contacts) : Cell(contacts, r, 1) = id}

\* C13: an update whose reads went through targets the first row, from the
\* top, whose position-0 cell equals the castingId; when no row has it the
\* request answers 404 and has written nothing.
C13_FirstMatchOrNotFound ==
    (sc.op = "update" /\ sc.pc \in {"write", "done"}
        /\ sc.response.detail \notin {"SHOOTING_CONTACT_SHEET_ID missing", "Update failed"}) =>
       IF RowsOfKey(sc.payload.castingId) # {}
       THEN /\ sc.row_idx \in RowsOfKey(sc.payload.castingId)
            /\ \A r \in RowsOfKey(sc.payload.castingId) : sc.row_idx <= r
            /\ sc.response.status \in {0, 200}
       ELSE /\ sc.pc = "done" /\ sc.response.status = 404
            /\ sc.calls = << >>
            /\ sc.row_idx = 0

\* Two rows hold the castingId (an add repeated it) and the update went to the
\* upper one.
C13_Witness ==
    /\ sc.op = "update" /\ sc.pc = "done" /\ sc.response.status = 200
    /\ Cardinality(RowsOfKey(sc.payload.castingId)) = 2
    /\ sc.row_idx = 3

-----------------------------------------------------------------------------
(* Claims about the casts of a special order (SpecSpecial) *)

\* Whether the general roster, as request s loaded it, gives the cast id the
\* internal type: some roster row of that id has "NAIBU" in its type cell.
InternalCast(s, cid) ==
    /\ s.rosters.general
    /\ \E k \in 2..Len(CastListRows) :
          /\ Len(CastListRows[k]) > 9
          /\ CastListRows[k][1] = cid
          /\ CastListRows[k][10] = "NAIBU"

\* C14: the status cell (position 9, counted from 0) of every row a special
\* order builds and appends reads "KARI CASTING" (provisional) when the row's
\* cast resolves to the internal type and "KETTEI" (decided) otherwise, cast
\* ids without a roster record included.
C14_StatusCellFollowsCastType ==
    \A r \in Reqs :
        LET s == sp[r]
        IN /\ \A k \in 1..Len(s.new_rows) :
                 s.new_rows[k][10] = IF InternalCast(s, s.new_rows[k][5])
                                     THEN "KARI CASTING" ELSE "KETTEI"
           /\ (s.first_row > 0) => RowsAppended(s)

\* An internal cast and an id no roster knows, appended with their statuses.
C14_Witness ==
    /\ sp[1].pc = "done" /\ RowsAppended(sp[1])
    /\ sp[1].payload.castIds = << "c_int", "c_nobody" >>
    /\ sp[1].rosters.general
    /\ ledger[sp[1].first_row][10] = "KARI CASTING"
    /\ ledger[Len(ledger)][10] = "KETTEI"
    /\ ledger[Len(ledger)][6] = "FUMEI"

\* C15: when the row numbers were resolved, the returned descriptors are, in
\* order, one for each appended row of an internal cast (one per internal cast
\* occurrence and date): each has the castingId and the date of that row and
\* the number of the ledger row that holds it; there is none for a row of an
\* external or unknown cast.
C15_DescriptorsAreTheInternalRows ==
    \A r \in Reqs :
        LET s == sp[r]
            OfInternal(row) == InternalCast(s, row[5])
            rows == SelectSeq(s.new_rows, OfInternal)
            casts == {i \in 1..Len(s.payload.castIds) : InternalCast(s, s.payload.castIds[i])}
            events == s.response.calendar_events
        IN (s.pc = "done" /\ s.response.status = 200 /\ AnsweredWithRange(s)) =>
              /\ Len(events) = Len(rows)
              /\ Len(events) = Cardinality(casts) * Len(s.payload.dates)
              /\ \A e \in 1..Len(events) :
                    /\ events[e].castingId = rows[e][1]
                    /\ events[e].start = rows[e][7]
                    /\ events[e].rowNumber # NoRow
                    /\ ledger[events[e].rowNumber[1]] = rows[e]

\* An external cast first, then an internal one, on two dates: two descriptors
\* for four rows.
C15_Witness ==
    /\ sp[1].pc = "done" /\ AnsweredWithRange(sp[1])
    /\ sp[1].payload.castIds = << "c_ext", "c_int" >>
    /\ Len(sp[1].new_rows) = 4
    /\ Len(sp[1].response.calendar_events) = 2
    /\ sp[1].response.calendar_events[1].rowNumber = << sp[1].first_row + 2 >>

-----------------------------------------------------------------------------
(* Claims about failures (SpecService, SpecSpecial) *)

\* A chat post of the list of calls raised.
PostRaised(calls) ==
    \E i \in 1..Len(calls) : calls[i].api = "chat_postMessage" /\ ~calls[i].ok

\* C16 as claimed: in every endpoint a request in which a required leg raised
\* (the text post of an order, the thread post of a status update, a per-cast
\* post of a special order, the append of a special order or of an added
\* shooting contact) ends with a server error.
C16_RequiredLegFailureAborts ==
    /\ (oc.pc = "done" /\ PostRaised(slack_calls)) => oc.response.status = 500
    /\ (su.pc = "done" /\ PostRaised(slack_calls)) => su.response.status = 500
    /\ \A r \in Reqs :
          (sp[r].pc = "done" /\ (PostRaised(sp[r].calls) \/ sp[r].append_error # None))
             => sp[r].response.status = 500
    /\ (sc.pc = "done" /\ sc.op = "add" /\ sc.calls # << >> /\ ~sc.calls[1].ok)
          => sc.response.status = 500

\* A call of the request returned a message timestamp.
GotTs(s) == \E i \in 1..Len(s.calls) : s.calls[i].api = "chat_postMessage" /\ s.calls[i].ok

\* C17 as claimed: a special order whose messages were sent (timestamps
\* obtained) returns the success flag, also when its later append fails.
C17_PartialResultsAlwaysReturned ==
    \A r \in Reqs :
        (sp[r].pc = "done" /\ GotTs(sp[r])) =>
            sp[r].response.ok /\ sp[r].response.status = 200

\* C17, amended: a special order whose messages were sent and whose append
\* then fails answers with a server error that carries the failure text, with
\* no success flag and no partial result; when the append goes through it
\* returns the success flag.
C17_AppendFailureIsServerError ==
    \A r \in Reqs :
        LET s == sp[r]
        IN (s.pc = "done" /\ GotTs(s)) =>
              IF s.append_error # None
              THEN /\ s.response.status = 500 /\ ~s.response.ok
                   /\ s.response.detail = s.append_error
                   /\ s.response.calendar_events = << >>
                   /\ s.first_row = 0
              ELSE /\ s.response.status = 200 /\ s.response.ok
                   /\ RowsAppended(s)

\* Both casts' messages went out with permalinks, then the append raised.
C17_Witness ==
    /\ sp[1].pc = "done" /\ sp[1].append_error # None
    /\ Len(sp[1].calls) = 4
    /\ \A i \in 1..4 : sp[1].calls[i].ok
    /\ sp[1].internal_events # << >>
    /\ sp[1].response.status = 500

\* The request got past the token check and the opening of the sheet.
PastOpening(s) ==
    /\ s.pc # "idle"
    /\ s.response.detail \notin {"Slack BOT TOKEN not set", "sheet not found"}

\* C18: a special order one or both of whose roster loads failed is not
\* aborted for that: it goes on to post a message for every cast id and to
\* append the rows, and answers with success unless the append itself raises.
\* Every cast id without a roster record (all of them when the general roster
\* failed to load) gets the name "FUMEI" (unknown) and the external type.
C18_RosterFailureDoesNotAbort ==
    \A r \in Reqs :
        LET s == sp[r]
            Known(cid) == /\ s.rosters.general
                          /\ \E k \in 2..Len(CastListRows) :
                                Len(CastListRows[k]) >= 2 /\ CastListRows[k][1] = cid
        IN /\ (PastOpening(s) /\ s.pc = "done") =>
                 /\ s.response.status = 200 \/ s.append_error # None
                 /\ \A i \in 1..Len(s.payload.castIds) :
                       \E c \in 1..Len(s.calls) :
                          /\ s.calls[c].api = "chat_postMessage"
                          /\ s.calls[c].text[1] \in {"FUMEI ", "Ext ", "<@U_ANN> "}
                 /\ Len(s.new_rows) = Len(s.payload.castIds) * Len(s.payload.dates)
                 /\ (s.response.status = 200 /\ s.new_rows # << >>) => RowsAppended(s)
           /\ \A k \in 1..Len(s.new_rows) :
                 ~Known(s.new_rows[k][5]) =>
                     /\ s.new_rows[k][6] = "FUMEI"
                     /\ s.new_rows[k][20] = "GAIBU"
                     /\ s.new_rows[k][21] = ""

\* Both roster loads failed; the request still posted for the cast, appended
\* its row as an unknown external cast and answered with success.
C18_Witness ==
    /\ sp[1].pc = "done" /\ PastOpening(sp[1])
    /\ ~sp[1].rosters.internal /\ ~sp[1].rosters.general
    /\ sp[1].payload.castIds = << "c_int" >>
    /\ sp[1].response.status = 200
    /\ RowsAppended(sp[1])
    /\ ledger[sp[1].first_row][6] = "FUMEI"
    /\ sp[1].calls[1].ok

-----------------------------------------------------------------------------
(* Claims about the standard order message (SpecCompose) *)

\* The places of a line in the composed text.
PlacesOf(line) == {i \in 1..Len(co.text) : co.text[i] = line}

\* The line a candidate is expected on: its rank and its mention or name.
CandLine(c) ==
    "    dai" \o ToString(c.rank) \o "kouho:"
    \o (IF Truthy(c.slack_user_id) THEN "<@" \o c.slack_user_id \o ">" ELSE c.castName)

\* The place of the line of the i-th candidate of the input (0 when absent).
CandPlace(i) ==
    LET places == PlacesOf(CandLine(co.payload.orders[i]))
    IN IF places = {} THEN 0 ELSE CHOOSE q \in places : \A q2 \in places : q <= q2

ProjectLine(p_name) == "[[" \o p_name \o "]]"

RoleLine(r_name) == "  " \o r_name

ProjectLinesOfInput == {ProjectLine(co.payload.orders[i].projectName) :
                           i \in 1..Len(co.payload.orders)}

RoleLinesOfInput == {RoleLine(co.payload.orders[i].roleName) :
                        i \in 1..Len(co.payload.orders)}

\* The nearest place before q that holds one of the lines (0 when none).
NearestBefore(q, lines) ==
    LET places == {i \in 1..(q - 1) : co.text[i] \in lines}
    IN IF places = {} THEN 0 ELSE CHOOSE i \in places : \A i2 \in places : i >= i2

\* The first place in the input of a candidate of the project, or of the
\* project and role.
FirstOfProject(p_name) ==
    CHOOSE i \in 1..Len(co.payload.orders) :
        /\ co.payload.orders[i].projectName = p_name
        /\ \A j \in 1..(i - 1) : co.payload.orders[j].projectName # p_name

FirstOfRole(p_name, r_name) ==
    CHOOSE i \in 1..Len(co.payload.orders) :
        /\ co.payload.orders[i].projectName = p_name
        /\ co.payload.orders[i].roleName = r_name
        /\ \A j \in 1..(i - 1) : ~(/\ co.payload.orders[j].projectName = p_name
                                   /\ co.payload.orders[j].roleName = r_name)

\* C19: in the standard message every candidate has its line, under the role
\* line of its role, under the header of its project; each project has one
\* header and each role of a project one role line; candidates of projects
\* seen earlier in the input come first, within a project those of roles seen
\* earlier come first, and within a role the lower rank comes first, equal
\* ranks in input order.
C19_GroupedFirstSeenSortedByRank ==
    (co.pc = "done") =>
       LET orders == co.payload.orders
           n == Len(orders)
           header(i) == NearestBefore(CandPlace(i), ProjectLinesOfInput)
           role(i) == NearestBefore(CandPlace(i), RoleLinesOfInput)
       IN /\ \A i \in 1..n :
                /\ Cardinality(PlacesOf(CandLine(orders[i]))) = 1
                /\ header(i) > 0 /\ role(i) > header(i)
                /\ co.text[header(i)] = ProjectLine(orders[i].projectName)
                /\ co.text[role(i)] = RoleLine(orders[i].roleName)
          /\ \A i \in 1..n : \A j \in 1..n :
                LET a == orders[i]
                    b == orders[j]
                IN IF a.projectName # b.projectName
                   THEN (FirstOfProject(a.projectName) < FirstOfProject(b.projectName))
                           => CandPlace(i) < header(j)
                   ELSE /\ header(i) = header(j)
                        /\ IF a.roleName # b.roleName
                           THEN (FirstOfRole(a.projectName, a.roleName)
                                    < FirstOfRole(b.projectName, b.roleName))
                                   => CandPlace(i) < role(j)
                           ELSE /\ role(i) = role(j)
                                /\ (i < j /\ a.rank <= b.rank) => CandPlace(i) < CandPlace(j)
                                /\ (i < j /\ a.rank > b.rank) => CandPlace(j) < CandPlace(i)

\* Project P2 is seen before P1, and within P2 the third candidate has the
\* lower rank: P2's block comes first, with the third candidate first in it.
C19_Witness ==
    /\ co.pc = "done" /\ Len(co.payload.orders) = 3
    /\ co.payload.orders[1].projectName = "P2" /\ co.payload.orders[1].rank = 2
    /\ co.payload.orders[2].projectName = "P1"
    /\ co.payload.orders[3].projectName = "P2" /\ co.payload.orders[3].rank = 1
    /\ co.payload.orders[3].roleName = co.payload.orders[1].roleName
    /\ CandPlace(3) < CandPlace(1)
    /\ CandPlace(1) < CandPlace(2)

\* The warning lines a message of these inputs can hold.
WarningLines == {"    [!] " \o c : c \in {"", "overlaps"}}

\* C20: in the standard message the line right after a candidate's line is
\* the warning with its conflictInfo when the candidate carries one, and is no
\* warning line when it carries none (None or empty); the message has no
\* other warning line.
C20_WarningRightAfterItsCandidate ==
    (co.pc = "done") =>
       LET orders == co.payload.orders
       IN /\ \A i \in 1..Len(orders) :
                /\ CandPlace(i) > 0 /\ CandPlace(i) < Len(co.text)
                /\ IF Truthy(orders[i].conflictInfo)
                   THEN co.text[CandPlace(i) + 1] = "    [!] " \o orders[i].conflictInfo
                   ELSE co.text[CandPlace(i) + 1] \notin WarningLines
          /\ Cardinality({q \in 1..Len(co.text) : co.text[q] \in WarningLines})
                = Cardinality({i \in 1..Len(orders) : Truthy(orders[i].conflictInfo)})

\* Rank 1 without conflict, rank 2 with one, given in the other order: the
\* warning is under rank 2 only.
C20_Witness ==
    /\ co.pc = "done" /\ Len(co.payload.orders) = 2
    /\ co.payload.orders[1].rank = 2 /\ co.payload.orders[1].conflictInfo = "overlaps"
    /\ co.payload.orders[2].rank = 1 /\ co.payload.orders[2].conflictInfo = ""
    /\ co.payload.orders[1].roleName = co.payload.orders[2].roleName
    /\ co.payload.orders[1].projectName = co.payload.orders[2].projectName
    /\ CandPlace(1) = CandPlace(2) + 1
    /\ co.text[CandPlace(1) + 1] = "    [!] overlaps"

-----------------------------------------------------------------------------
(* Claims about the message built from an empty list, built twice, and built
   for an additional order (SpecCompose, SpecRecompose) *)

\* The lines of the block under a label of the standard message: from the line
\* after the label up to the next empty line.
BlockUnder(label) ==
    LET at == CHOOSE q \in PlacesOf(label) : \A q2 \in PlacesOf(label) : q <= q2
        ends == {q \in (at + 1)..Len(co.text) : co.text[q] = ""}
        stop == IF ends = {} THEN Len(co.text) + 1
                ELSE CHOOSE q \in ends : \A q2 \in ends : q <= q2
    IN SubSeq(co.text, at + 1, stop - 1)

\* C21: the standard message composed from an empty candidate list has the
\* placeholder "mitei" (undecided) in the block under the project label and in
\* the block under the role label.
C21_PlaceholderInBothBlocks ==
    (co.pc = "done" /\ co.payload.orders = << >>) =>
        /\ PlacesOf("|sakuhinmei|") # {} /\ PlacesOf("|yakumei|") # {}
        /\ BlockUnder("|sakuhinmei|") = << "mitei" >>
        /\ BlockUnder("|yakumei|") = << "mitei" >>

PlacesOfRole(p_name, r_name) ==
    {i \in 1..Len(co.payload.orders) :
        /\ co.payload.orders[i].projectName = p_name
        /\ co.payload.orders[i].roleName = r_name}

RankedBefore(i) ==
    LET orders == co.payload.orders
    IN {j \in PlacesOfRole(orders[i].projectName, orders[i].roleName) :
           \/ orders[j].rank < orders[i].rank
           \/ (orders[j].rank = orders[i].rank /\ j < i)}

\* The names of the candidates of a project and role, lowest rank first.
NamesByRank(p_name, r_name) ==
    LET mine == PlacesOfRole(p_name, r_name)
    IN [k \in 1..Cardinality(mine) |->
          co.payload.orders[CHOOSE i \in mine : Cardinality(RankedBefore(i)) = k - 1].castName]

\* C27: in the additional-order message each role of each project has, under
\* the header of its project, the line "{role}:{names}" with the names of its
\* candidates joined by " / " in ascending rank order, equal ranks in input
\* order.
C27_AdditionalNamesByRank ==
    (co.pc \in {"composed", "done"} /\ co.payload.isAdditionalOrder) =>
       \A i \in 1..Len(co.payload.orders) :
          LET p_name == co.payload.orders[i].projectName
              r_name == co.payload.orders[i].roleName
              line == r_name \o ":" \o JoinStr(NamesByRank(p_name, r_name), " / ")
          IN \E q \in PlacesOf(line) :
                LET header == NearestBefore(q, ProjectLinesOfInput)
                IN header > 0 /\ co.text[header] = ProjectLine(p_name)

-----------------------------------------------------------------------------
(* Claims about the broadcast mention and the channel of a thread reply *)

\* The texts of the messages the requests have handed to the chat platform
\* (the caption of an upload, the text of a post).
SentTexts ==
    {slack_calls[i].text : i \in {k \in 1..Len(slack_calls) :
                                     slack_calls[k].api # "chat_getPermalink"}}
    \cup UNION {{sp[r].calls[i].text : i \in {k \in 1..Len(sp[r].calls) :
                                                sp[r].calls[k].api # "chat_getPermalink"}} :
                   r \in Reqs}

\* C22: with a mention group configured, every message text sent (standard
\* order, additional order, status update, special order) begins with the
\* broadcast-mention line of that group.
C22_EveryMessageBeginsWithMention ==
    Truthy(SLACK_MENTION_GROUP_ID) =>
        \A text \in SentTexts :
            /\ text # << >>
            /\ text[1] = "<!subteam^" \o SLACK_MENTION_GROUP_ID \o ">"

\* C28: a status update that replies into the thread of an order (its
\* slackThreadTs is the ts the order request answered) is posted to the channel
\* pick_channel selected for that order.
C28_ThreadReplyInTheOrdersChannel ==
    \A i \in 1..Len(slack_calls) :
        (/\ su.pc \in {"post", "done"}
         /\ slack_calls[i].api = "chat_postMessage"
         /\ slack_calls[i].thread_ts = su.payload.slackThreadTs
         /\ slack_calls[i].text = status_text(su.payload)
         /\ su.payload.slackThreadTs = oc.response.ts)
        => /\ oc.channel = pick_channel(oc.payload.orderType)
           /\ slack_calls[i].channel = oc.channel

-----------------------------------------------------------------------------
(* Claims about the order of a special order's messages and its one append *)

\* The places in the call log of request s of its chat_postMessage calls, and
\* the place of the k-th of them.
PostPlaces(s) == {i \in 1..Len(s.calls) : s.calls[i].api = "chat_postMessage"}

PostPlace(s, k) ==
    CHOOSE i \in PostPlaces(s) : Cardinality({j \in PostPlaces(s) : j <= i}) = k

\* What the k-th message of request s gave: its ts (None when the post
\* raised) and the permalink fetched for it ("" when none was).
TsOfPost(s, k) == s.calls[PostPlace(s, k)].result

LinkOfPost(s, k) ==
    LET next == PostPlace(s, k) + 1
    IN IF /\ next <= Len(s.calls)
          /\ s.calls[next].api = "chat_getPermalink"
          /\ s.calls[next].ok
       THEN s.calls[next].result ELSE ""

\* Request s has gone through its loop over castIds.
LoopDone(s) ==
    \/ s.pc \in {"append", "resolve"}
    \/ s.pc = "done" /\ (s.response.status = 200 \/ s.append_error # None)

\* C29: a special order of c casts and d dates that gets to its loop posts one
\* message per cast, c in all, while the ledger is as it was; then it appends
\* at most once, c*d rows at the end of the ledger, cast by cast and date by
\* date within a cast, the rows of a cast all holding the ts and permalink of
\* that cast's message (None and "" when its post raised).
C29_OneMessagePerCastThenOneAppend ==
    /\ [](\A r \in Reqs :
            LET s == sp[r]
                c == Len(s.payload.castIds)
                d == Len(s.payload.dates)
            IN /\ (s.pc = "cast") =>
                     /\ Cardinality(PostPlaces(s)) = s.i - 1 /\ s.i <= c
                     /\ s.first_row = 0
               /\ LoopDone(s) =>
                     /\ Cardinality(PostPlaces(s)) = c
                     /\ Len(s.new_rows) = c * d
                     /\ \A k \in 1..c : \A j \in 1..d :
                           LET row == s.new_rows[(k - 1) * d + j]
                           IN /\ row[5] = s.payload.castIds[k]
                              /\ row[7] = date_str(s.payload.dates[j])
                              /\ row[12] = TsOfPost(s, k)
                              /\ row[13] = LinkOfPost(s, k)
                     /\ (s.first_row > 0) => (c * d > 0 /\ RowsAppended(s)))
    /\ [][(ledger' # ledger) =>
             \E r \in Reqs :
                /\ sp[r].pc = "append" /\ sp[r].first_row = 0
                /\ sp'[r].pc = "resolve" /\ sp'[r].first_row = Len(ledger) + 1
                /\ ledger' = ledger \o sp[r].new_rows]_vars

\* Two casts and two dates; the first cast's post raised and the second's
\* went through: four rows appended, the first two without ts and permalink.
C29_Witness ==
    /\ sp[1].pc = "done" /\ sp[1].response.status = 200
    /\ Len(sp[1].payload.castIds) = 2 /\ Len(sp[1].payload.dates) = 2
    /\ Len(sp[1].new_rows) = 4 /\ RowsAppended(sp[1])
    /\ TsOfPost(sp[1], 1) = None /\ TsOfPost(sp[1], 2) # None
    /\ ledger[sp[1].first_row + 1][12] = None
    /\ ledger[sp[1].first_row + 3][12] = TsOfPost(sp[1], 2)
    /\ ledger[sp[1].first_row + 3][13] # ""

-----------------------------------------------------------------------------
(* Claims about updates that race and updates that are sent again *)

\* The tab has grown since the second request read column A: another
\* request's append went in between.
GrownSinceRead == Len(contacts) > Len(sc2.col_a)

\* The row a request found holds the id it asked for, and no row above does.
FoundRowHoldsKey(s) ==
    /\ s.row_idx \in 2..Len(contacts)
    /\ Cell(contacts, s.row_idx, 1) = s.payload.castingId
    /\ \A r \in 1..(s.row_idx - 1) : Cell(contacts, r, 1) # s.payload.castingId

\* C24 as stated: when another request's append has gone in between an
\* update's read of the identity column and its write, the write lands on a
\* stale row, one whose position-0 cell is not the requested castingId.
C24_InterleavedWriteLandsOnStaleRow ==
    (sc2.pc = "write" /\ GrownSinceRead) =>
        Cell(contacts, sc2.row_idx, 1) # sc2.payload.castingId

\* C24 as it holds: whatever this service's other request does between an
\* update's lookup and its write (an append, an update's write), the row the
\* update found still is, when it writes and after, the first row whose
\* position-0 cell is the requested castingId: no write lands on a stale row.
C24_FoundRowKeepsItsKey ==
    /\ (sc2.pc = "write" \/ (sc2.pc = "done" /\ sc2.calls # << >>)) => FoundRowHoldsKey(sc2)
    /\ (sc.op = "update" /\ (sc.pc = "write" \/ (sc.pc = "done" /\ sc.calls # << >>)))
          => FoundRowHoldsKey(sc)

\* The second request found k2 in row 3; before it writes, the other request
\* appends another k2 row; the write then goes to row 3.
C24_Witness ==
    /\ sc2.pc = "done" /\ sc2.response.ok
    /\ sc2.payload.castingId = "k2" /\ sc2.row_idx = 3
    /\ GrownSinceRead
    /\ sc.op = "add" /\ sc.pc = "done" /\ sc.response.ok
    /\ Cell(contacts, Len(contacts), 1) = "k2"
    /\ Cell(contacts, 3, ColumnIndex("U")) = "po-1"
    /\ Cell(contacts, Len(contacts), ColumnIndex("U")) = ""

\* The cells of the tab that a step changes.
ChangedCells ==
    {rc \in (1..Len(contacts')) \X (1..Len(ColumnLetters)) :
        Cell(contacts', rc[1], rc[2]) # Cell(contacts, rc[1], rc[2])}

\* C25: when an update that went through is sent again, the second run finds
\* the row again and its write changes no cell but the last-modified
\* timestamp (column S) of that row: the tab is as after one run, but for
\* that timestamp.
C25_RepeatedUpdateChangesOnlyTimestamp ==
    /\ [](sc.again => sc.response.status # 404)
    /\ [][(sc.again /\ sc.pc = "write") =>
             /\ Len(contacts') = Len(contacts)
             /\ ChangedCells \subseteq {<< sc.row_idx, ColumnIndex("S") >>}]_vars

\* An update of every field of k2 went through twice: the row holds the
\* values and the stamp of the second run.
C25_Witness ==
    /\ sc.again /\ sc.pc = "done" /\ sc.response.ok
    /\ sc.payload.castingId = "k2" /\ sc.payload.status = "OK" /\ sc.payload.poUuid = "po-1"
    /\ Cell(contacts, sc.row_idx, ColumnIndex("J")) = "OK"
    /\ Cell(contacts, sc.row_idx, ColumnIndex("U")) = "po-1"
    /\ Cell(contacts, sc.row_idx, ColumnIndex("S")) = now_str(sc.served + 1)

-----------------------------------------------------------------------------
(* Claims about the positions of the fields on the shooting-contact tab *)

\* The name under which the list endpoint gives a field of the add payload.
ListName(f) == IF f = "account" THEN "accountName" ELSE f

\* The fields add_shooting_contact takes from its payload, and its default
\* for those that may be absent.
AddFields ==
    {"castingId", "account", "projectName", "notionId", "roleName", "castName",
     "castType", "shootDate", "note", "inTime", "outTime", "location", "address",
     "makingUrl", "cost", "postDate", "updatedBy", "updatedAt", "mainSub"}

AddDefault(f) == IF f = "mainSub" THEN "sonota" ELSE ""

\* The fields update_shooting_contact_status may write.
UpdateFields == DOMAIN UpdateValues

\* Probes: an add payload and an update payload whose every field holds its
\* own name, and a row whose every cell holds its column letter.
AddProbe == [f \in AddFields |-> f]

UpdateProbe == [f \in UpdateFields \cup {"castingId"} |-> f]

LetterRow == ColumnLetters

\* The request has just added its row, or updated the row it found.
Added == sc.op = "add" /\ sc.pc = "done" /\ sc.response.ok

Updated == sc.op = "update" /\ sc.pc = "done" /\ sc.response.ok

\* C26 as stated: every field has one position, where add writes it, update
\* writes it and list reads it, so that the list gives, for the row just
\* added, every value of the add payload, and for the row just updated, every
\* value of the update payload, under the field's name.
C26_ListReturnsWhatWasWritten ==
    /\ Added =>
          LET rec == list_record(contacts[Len(contacts)])
          IN \A f \in DOMAIN sc.payload :
                ListName(f) \in DOMAIN rec /\ rec[ListName(f)] = sc.payload[f]
    /\ Updated =>
          LET rec == list_record(contacts[sc.row_idx])
          IN \A f \in UpdateFields :
                (sc.payload[f] # None) => rec[f] = sc.payload[f]

\* C26 as it holds: each field add writes, it writes at the position list
\* reads it from, and each field update writes, it writes to the column of
\* that position; the list then gives, for the row just added, each of those
\* fields as the tab keeps what was typed (a numeral without its leading
\* zeros), the fixed status, the default of an absent field and no poUuid; and
\* for the row just updated, each field of the payload as it was sent and the
\* time of the update as updatedAt.
C26_SamePositionsValuesAsKept ==
    /\ \A k \in 1..Len(contact_row(AddProbe)) :
          LET f == contact_row(AddProbe)[k]
          IN (f \in AddFields) => list_record(LetterRow)[ListName(f)] = ColumnLetters[k]
    /\ LET updates == updates_of(UpdateProbe, 2, "updatedAt")
       IN \A u \in 1..Len(updates) :
             list_record(LetterRow)[updates[u].value] = updates[u].range.col
    /\ Added =>
          LET rec == list_record(contacts[Len(contacts)])
          IN /\ \A f \in AddFields :
                   rec[ListName(f)] = user_entered(Get(sc.payload, f, AddDefault(f)))
             /\ rec.status = "KOUBAN RENRAKU MACHI"
             /\ rec.poUuid = ""
    /\ Updated =>
          LET rec == list_record(contacts[sc.row_idx])
          IN /\ \A f \in UpdateFields :
                   (sc.payload[f] # None) => rec[f] = sc.payload[f]
             /\ rec.updatedAt = now_str(sc.served + 1)
             /\ rec.castingId = sc.payload.castingId

\* k3 was added with a note and a main/sub class, then every field of it was
\* updated: the list gives the note of the add and the values of the update.
C26_Witness ==
    /\ Updated /\ sc.payload.castingId = "k3" /\ sc.payload.poUuid = "po-1"
    /\ LET rec == list_record(contacts[sc.row_idx])
       IN /\ rec.note = "bring ID" /\ rec.accountName = "acct"
          /\ rec.mainSub = "sub" /\ rec.inTime = "10:30" /\ rec.poUuid = "po-1"

====
